---- MODULE Spec2Model ----
(***************************************************************************)
(* A model of fish's `read` builtin (src/src/builtins/read.rs): the three  *)
(* acquisition strategies, the splitter and the controller loop; and of    *)
(* the path functions of src/src/path.rs.                                  *)
(*                                                                         *)
(* Text is a sequence of code points, raw input a sequence of bytes        *)
(* (0..255).  A variable's value is a sequence of texts (fish variables    *)
(* are lists).                                                             *)
(***************************************************************************)
EXTENDS Integers, Sequences, FiniteSets, TLC

VARIABLES
    opts,       \* Options after parse_cmd_opts (read.rs 37-55)
    argc,       \* number of destination variables (read.rs 544)
    argv,       \* what validate_read_args finds out about each name
    fd,         \* what the controller can observe of streams.stdin_fd
    file,       \* bytes the descriptor delivers, in order
    pos,        \* descriptor offset: bytes of `file` already consumed
    limit,      \* READ_BYTE_LIMIT (read.rs 12)
    ifs,        \* value of the variable IFS, empty when unset (read.rs 684-688)
    pc,         \* position of the invocation
    ck,         \* locals of read_in_chunks
    oc,         \* locals of read_one_char_at_a_time
    buff,       \* `buff` of read(), filled by the strategies
    exit_res,   \* result of the last acquisition / of read()
    var_ptr,    \* index of the next unfilled variable (read.rs 572)
    vars,       \* the destination variables, in argv order
    out,        \* streams.out: the texts appended to it
    writes,     \* log of the assignments to variables, in program order
    nacq,       \* acquisitions started by this invocation
    strategy,   \* the strategy running the current acquisition
    start,      \* descriptor offset when the current acquisition started
    path,       \* the text path_make_canonical works on in place (path.rs 433)
    path_arg,   \* that text as the caller passed it
    path_calls, \* calls of path_make_canonical made on it
    path_fn,    \* the path function the caller is about to call
    path_other, \* its second argument: p2, or the working directory
    path_res    \* what paths_are_equivalent / path_apply_working_directory
                \* returned, None before the call

\* the state of read, and the state of the path functions
read_vars == <<opts, argc, argv, fd, file, pos, limit, ifs, pc, ck, oc, buff, exit_res,
               var_ptr, vars, out, writes, nacq, strategy, start>>
path_vars == <<path, path_arg, path_calls, path_fn, path_other, path_res>>

vars_all == <<read_vars, path_vars>>

--------------------------------------------------------------------------
(* Bounds of the model.                                                    *)

\* longest free tail of a descriptor's content, in characters (SpecAcq)
MaxTail == 3
\* longest descriptor content, in characters (Spec)
MaxLen == 3
\* most destination variables of one invocation
MaxVars == 3
\* longest record of a descriptor, in characters (SpecSplit)
MaxUnit == 4
\* longest path, in characters (SpecPath)
MaxPath == 5
\* most calls of a path function on one text (SpecPath)
MaxCalls == 2
\* longest path of a pair of paths, in characters (SpecPath)
MaxPair == 3

--------------------------------------------------------------------------
(* Results.                                                                *)

SUCCESS == "SUCCESS"
STATUS_CMD_ERROR == "STATUS_CMD_ERROR"
STATUS_READ_TOO_MUCH == "STATUS_READ_TOO_MUCH"
STATUS_INVALID_ARGS == "STATUS_INVALID_ARGS"

Min(a, b) == IF a <= b THEN a ELSE b
Max(a, b) == IF a >= b THEN a ELSE b

\* variant: a truncate that leaves the sequence as it is
truncate_keeps_all(s, n) == s

\* variant: a pop that leaves the last element in place
pop_keeps_last(s) == s

\* Vec::truncate / WString::truncate: keep the first n elements
truncate(s, n) == IF n < Len(s) THEN SubSeq(s, 1, n) ELSE s

\* Vec::pop: drop the last element
pop(s) == SubSeq(s, 1, Len(s) - 1)

--------------------------------------------------------------------------
(* Bytes and characters.  The decoder and the byte/text conversions are    *)
(* code of the repository outside read.rs (input_common, common).          *)

\* base of the private-use range an undecodable byte is passed through as
ENCODE_DIRECT_BASE == 62976

encode_byte_to_char(b) == ENCODE_DIRECT_BASE + b

\* length of the UTF-8 sequence a lead byte announces, 0 for no lead byte
Utf8Len(b) ==
    IF b < 128 THEN 1
    ELSE IF b >= 194 /\ b <= 223 THEN 2
    ELSE IF b >= 224 /\ b <= 239 THEN 3
    ELSE IF b >= 240 /\ b <= 244 THEN 4
    ELSE 0

IsCont(b) == b >= 128 /\ b <= 191

\* the code point of one complete, well-formed sequence
CodePoint(bs) ==
    IF Len(bs) = 1 THEN bs[1]
    ELSE IF Len(bs) = 2 THEN (bs[1] - 192) * 64 + (bs[2] - 128)
    ELSE IF Len(bs) = 3
         THEN (bs[1] - 224) * 4096 + (bs[2] - 128) * 64 + (bs[3] - 128)
    ELSE (bs[1] - 240) * 262144 + (bs[2] - 128) * 4096
         + (bs[3] - 128) * 64 + (bs[4] - 128)

\* wcs2string for one character: its UTF-8 bytes
Utf8(c) ==
    IF c < 128 THEN <<c>>
    ELSE IF c < 2048 THEN <<192 + (c \div 64), 128 + (c % 64)>>
    ELSE <<224 + (c \div 4096), 128 + ((c \div 64) % 64), 128 + (c % 64)>>

RECURSIVE wcs2string(_)
wcs2string(s) == IF s = <<>> THEN <<>> ELSE Utf8(Head(s)) \o wcs2string(Tail(s))

\* decode_input_byte with InvalidPolicy::Passthrough: `buffer` is the
\* pending byte sequence, the newly read byte last.  Incomplete leaves
\* out_seq alone; Complete appends the decoded character, or every pending
\* byte passed through when the sequence is malformed.
decode_input_byte(out_seq, buffer) ==
    LET need == Utf8Len(buffer[1])
        wellformed == \A i \in 2..Len(buffer) : IsCont(buffer[i])
    IN  IF need = 0 \/ ~wellformed \/ Len(buffer) > need
        THEN [state |-> "Complete",
              out_seq |-> out_seq \o
                  [i \in 1..Len(buffer) |-> encode_byte_to_char(buffer[i])]]
        ELSE IF Len(buffer) < need
        THEN [state |-> "Incomplete", out_seq |-> out_seq]
        ELSE [state |-> "Complete", out_seq |-> Append(out_seq, CodePoint(buffer))]

\* smallest element of a non-empty set of integers
SetMin(S) == CHOOSE x \in S : \A y \in S : x <= y

\* count_ascii_prefix: how many bytes from index i on are ASCII
count_ascii_prefix(bs, i) ==
    LET high == {j \in i..Len(bs) : bs[j] >= 128}
    IN  IF high = {} THEN Len(bs) - i + 1 ELSE SetMin(high) - i

\* str2wcstring: decode a whole buffer at once.  Each run of ASCII bytes is
\* appended as it is; after it one sequence is decoded, a byte that starts
\* no complete well-formed sequence being passed through on its own.
RECURSIVE str2wcs_from(_, _)
str2wcs_from(bs, i) ==
    LET n == count_ascii_prefix(bs, i)
        k == i + n
        need == Utf8Len(bs[k])
    IN  IF k > Len(bs) THEN SubSeq(bs, i, Len(bs))
        ELSE IF need >= 2 /\ k + need - 1 <= Len(bs)
                /\ \A j \in (k + 1)..(k + need - 1) : IsCont(bs[j])
        THEN SubSeq(bs, i, k - 1) \o <<CodePoint(SubSeq(bs, k, k + need - 1))>>
             \o str2wcs_from(bs, k + need)
        ELSE SubSeq(bs, i, k - 1) \o <<encode_byte_to_char(bs[k])>>
             \o str2wcs_from(bs, k + 1)

str2wcstring(bs) == str2wcs_from(bs, 1)

--------------------------------------------------------------------------
(* The descriptor.                                                         *)

\* Option: None and Some(v)
None == [some |-> FALSE, val |-> <<>>]
Some(v) == [some |-> TRUE, val |-> v]

\* read_blocked(fd, buf) at offset p into a buffer of `cap` bytes, the
\* kernel handing over at most `burst` bytes: Ok(n), n = 0 at end of input,
\* or Err.  fd.fail, when it is Some(k), is the offset from which the
\* descriptor's reads fail with an I/O error other than EINTR.
read_blocked(f, p, cap, burst) ==
    IF fd.fail.some /\ p >= fd.fail.val
    THEN [ok |-> FALSE, n |-> 0]
    ELSE [ok |-> TRUE,
          n |-> Min(Min(cap, burst),
                    (IF fd.fail.some THEN Min(Len(f), fd.fail.val) ELSE Len(f))
                    - p)]

\* the record delimiter byte / character (read.rs 297, 393)
Delim(split_null) == IF split_null THEN 0 ELSE 10

\* variant: the 0-based index of the last d in s
position_last(s, d) ==
    LET at == {i \in 1..Len(s) : s[i] = d}
    IN  IF at = {} THEN Len(s) ELSE (CHOOSE i \in at : \A j \in at : j <= i) - 1

\* Iterator::position(..).unwrap_or(n): 0-based index of the first d in s
position(s, d) ==
    LET at == {i \in 1..Len(s) : s[i] = d}
    IN  IF at = {} THEN Len(s) ELSE SetMin(at) - 1

\* the byte budget guard: `n > READ_BYTE_LIMIT.load(..)` (read.rs 320, 380)
over_limit(n, lim) == n > lim

--------------------------------------------------------------------------
(* read_in_chunks (read.rs 278-332).                                       *)

READ_CHUNK_SIZE == 128

\* the locals at function entry, the descriptor at offset p
read_in_chunks_entry(p) ==
    [narrow_buff |-> <<>>, eof |-> FALSE, finished |-> FALSE,
     exit_res |-> SUCCESS, early |-> FALSE, found |-> FALSE,
     pos |-> p, reads |-> 0, seeks |-> 0]

\* variant: a seek back onto the delimiter instead of past it
seek_offset_onto_delimiter(bytes_consumed, bytes_read) ==
    bytes_consumed - bytes_read

\* the offset handed to lseek(fd, .., SEEK_CUR) (read.rs 309)
seek_offset(bytes_consumed, bytes_read) == bytes_consumed - bytes_read + 1

\* One pass of `while !finished` (read.rs 284-324).  seek_ok is the outcome
\* of the lseek call, should the pass issue one.
read_in_chunks_iter(c, f, split_null, do_seek, lim, burst, seek_ok) ==
    LET res == read_blocked(f, c.pos, READ_CHUNK_SIZE, burst)
        bytes_read == res.n
        inbuf == SubSeq(f, c.pos + 1, c.pos + bytes_read)
        bytes_consumed == position(inbuf, Delim(split_null))
        nb == c.narrow_buff \o SubSeq(inbuf, 1, bytes_consumed)
        after == c.pos + bytes_read
        r == [c EXCEPT !.reads = @ + 1]
    IN  IF ~res.ok \/ bytes_read = 0
        THEN [r EXCEPT !.eof = TRUE]
        ELSE IF bytes_consumed < bytes_read
        THEN IF do_seek
             THEN IF seek_ok
                  THEN [r EXCEPT !.narrow_buff = nb, !.found = TRUE,
                                 !.seeks = @ + 1, !.finished = TRUE,
                                 !.pos = after + seek_offset(bytes_consumed, bytes_read)]
                  ELSE [r EXCEPT !.narrow_buff = nb, !.found = TRUE,
                                 !.seeks = @ + 1, !.early = TRUE,
                                 !.pos = after]
             ELSE [r EXCEPT !.narrow_buff = nb, !.found = TRUE,
                            !.finished = TRUE, !.pos = after]
        ELSE IF over_limit(Len(nb), lim)
        THEN [r EXCEPT !.narrow_buff = nb, !.pos = after,
                       !.exit_res = STATUS_READ_TOO_MUCH, !.finished = TRUE]
        ELSE [r EXCEPT !.narrow_buff = nb, !.pos = after]

\* the loop is left: break on eof, `finished`, or the return at 317
read_in_chunks_left(c) == c.eof \/ c.finished \/ c.early

\* variant: a return that keeps only the bytes within the limit and reports
\* the overrun as a failed read
read_in_chunks_return_cut(c, b) ==
    IF c.early
    THEN [buff |-> b, res |-> STATUS_CMD_ERROR]
    ELSE LET over == c.exit_res = STATUS_READ_TOO_MUCH
             text == str2wcstring(IF over THEN truncate(c.narrow_buff, limit)
                                  ELSE c.narrow_buff)
         IN  [buff |-> text,
              res |-> IF (text = <<>> /\ c.eof) \/ over THEN STATUS_CMD_ERROR
                      ELSE c.exit_res]

\* variant: a failed lseek taken as a finished record
read_in_chunks_return_seek_ignored(c, b) ==
    LET text == str2wcstring(c.narrow_buff)
    IN  [buff |-> text,
         res |-> IF text = <<>> /\ c.eof THEN STATUS_CMD_ERROR
                 ELSE c.exit_res]

\* what the function hands back (read.rs 316-317, 326-331); b is the
\* caller's buff at entry
read_in_chunks_return(c, b) ==
    IF c.early
    THEN [buff |-> b, res |-> STATUS_CMD_ERROR]
    ELSE LET text == str2wcstring(c.narrow_buff)
         IN  [buff |-> text,
              res |-> IF text = <<>> /\ c.eof THEN STATUS_CMD_ERROR
                      ELSE c.exit_res]

\* the whole call.  seek_ok is the outcome of the call's lseek: it makes
\* at most one, on the chunk that holds the delimiter, and leaves the loop
\* either way.
RECURSIVE read_in_chunks_loop(_, _, _, _, _, _, _)
read_in_chunks_loop(c, f, split_null, do_seek, lim, burst, seek_ok) ==
    IF read_in_chunks_left(c) THEN c
    ELSE read_in_chunks_loop(
             read_in_chunks_iter(c, f, split_null, do_seek, lim, burst, seek_ok),
             f, split_null, do_seek, lim, burst, seek_ok)

\* b is the caller's buff at entry
read_in_chunks(f, p, b, split_null, do_seek, lim, burst, seek_ok) ==
    LET c == read_in_chunks_loop(read_in_chunks_entry(p), f, split_null,
                                 do_seek, lim, burst, seek_ok)
        r == read_in_chunks_return(c, b)
    IN  [buff |-> r.buff, res |-> r.res, pos |-> c.pos]

--------------------------------------------------------------------------
(* read_one_char_at_a_time (read.rs 337-403).                              *)

\* the locals at function entry; b is the caller's buff
read_one_char_entry(p, b) ==
    [buff |-> b, nbytes |-> 0, unconsumed |-> <<>>, chars_read |-> Len(b),
     exit_res |-> SUCCESS, done |-> FALSE, state |-> "None", pos |-> p]

\* the rest of the outer loop body once the inner loop has broken with
\* `res` (read.rs 380-399); at_eof: res is None
read_one_char_outer(o, at_eof, nchars, split_null, lim) ==
    IF over_limit(o.nbytes, lim)
    THEN [o EXCEPT !.buff = truncate(o.buff, o.chars_read),
                   !.exit_res = STATUS_READ_TOO_MUCH, !.done = TRUE]
    ELSE IF at_eof
    THEN [o EXCEPT !.exit_res = IF o.buff = <<>> THEN STATUS_CMD_ERROR ELSE @,
                   !.done = TRUE]
    ELSE IF o.buff[Len(o.buff)] = Delim(split_null)
    THEN [o EXCEPT !.buff = pop(o.buff), !.done = TRUE]
    ELSE IF nchars > 0 /\ nchars <= Len(o.buff)
    THEN [o EXCEPT !.done = TRUE]
    ELSE [o EXCEPT !.chars_read = Len(o.buff)]

\* variant: a read that does not keep the byte of an unfinished sequence
read_one_char_iter_forgets(o, f, nchars, split_null, lim) ==
    IF ~read_blocked(f, o.pos, 1, 1).ok \/ read_blocked(f, o.pos, 1, 1).n = 0
    THEN read_one_char_outer([o EXCEPT !.state = "None"], TRUE,
                             nchars, split_null, lim)
    ELSE LET unconsumed == Append(o.unconsumed, f[o.pos + 1])
             d == decode_input_byte(o.buff, unconsumed)
             r == [o EXCEPT !.pos = @ + 1, !.nbytes = @ + 1, !.state = d.state]
         IN  IF d.state = "Incomplete"
             THEN r
             ELSE read_one_char_outer(
                      [r EXCEPT !.unconsumed = <<>>, !.buff = d.out_seq],
                      FALSE, nchars, split_null, lim)

\* One read of the inner loop (read.rs 352-378) and, when it breaks the
\* inner loop, the rest of the outer body.
read_one_char_iter(o, f, nchars, split_null, lim) ==
    IF ~read_blocked(f, o.pos, 1, 1).ok \/ read_blocked(f, o.pos, 1, 1).n = 0
    THEN read_one_char_outer([o EXCEPT !.state = "None"], TRUE,
                             nchars, split_null, lim)
    ELSE LET unconsumed == Append(o.unconsumed, f[o.pos + 1])
             d == decode_input_byte(o.buff, unconsumed)
             r == [o EXCEPT !.pos = @ + 1, !.nbytes = @ + 1, !.state = d.state]
         IN  IF d.state = "Incomplete"
             THEN [r EXCEPT !.unconsumed = unconsumed]
             ELSE read_one_char_outer(
                      [r EXCEPT !.unconsumed = <<>>, !.buff = d.out_seq],
                      FALSE, nchars, split_null, lim)

RECURSIVE read_one_char_loop(_, _, _, _, _)
read_one_char_loop(o, f, nchars, split_null, lim) ==
    IF o.done THEN o
    ELSE read_one_char_loop(read_one_char_iter(o, f, nchars, split_null, lim),
                            f, nchars, split_null, lim)

read_one_char_at_a_time(f, p, nchars, split_null, lim) ==
    LET o == read_one_char_loop(read_one_char_entry(p, <<>>), f, nchars,
                                split_null, lim)
    IN  [buff |-> o.buff, res |-> o.exit_res, pos |-> o.pos]

--------------------------------------------------------------------------
(* read_interactive (read.rs 203-266): mline is what reader_readline       *)
(* returned, [some |-> FALSE] for no line.                                 *)

\* variant: an editor without a line reported as too much input
read_interactive_no_line_too_much(b, nchars, mline) ==
    IF mline.some
    THEN [buff |-> IF nchars > 0 /\ nchars < Len(mline.val)
                   THEN truncate(mline.val, nchars) ELSE mline.val,
          res |-> SUCCESS]
    ELSE [buff |-> b, res |-> STATUS_READ_TOO_MUCH]

read_interactive(b, nchars, mline) ==
    IF mline.some
    THEN [buff |-> IF nchars > 0 /\ nchars < Len(mline.val)
                   THEN truncate(mline.val, nchars) ELSE mline.val,
          res |-> SUCCESS]
    ELSE [buff |-> b, res |-> STATUS_CMD_ERROR]

--------------------------------------------------------------------------
(* State shared by the specifications.                                     *)

\* Options::new (read.rs 57-64)
DefaultOptions ==
    [print_help |-> FALSE, place |-> {"USER"}, prompt |-> None,
     prompt_str |-> None, array |-> FALSE, tokenize |-> FALSE,
     one_line |-> FALSE, split_null |-> FALSE, to_stdout |-> FALSE,
     nchars |-> 0, delimiter |-> None]

\* a name as validate_read_args sees it: valid_var_name(arg), and
\* EnvVar::flags_for(arg).contains(READ_ONLY) (read.rs 510-526)
GoodName == [valid |-> TRUE, read_only |-> FALSE]
InvalidName == [valid |-> FALSE, read_only |-> FALSE]
ReadOnlyName == [valid |-> TRUE, read_only |-> TRUE]

\* a destination variable read has not touched
Untouched == [set |-> FALSE, val |-> <<>>]

\* no path function is at work
NoPath ==
    /\ path = <<>> /\ path_arg = <<>> /\ path_calls = 0
    /\ path_fn = "none" /\ path_other = <<>> /\ path_res = None

\* the controller's variables before read() has run
Idle ==
    /\ buff = <<>>
    /\ exit_res = SUCCESS
    /\ var_ptr = 0
    /\ out = <<>>
    /\ writes = <<>>
    /\ ck = read_in_chunks_entry(0)
    /\ oc = read_one_char_entry(0, <<>>)

--------------------------------------------------------------------------
(* The strategies as steps.                                                *)

\* one pass of the loop of read_in_chunks; the pass that leaves the loop
\* also converts the buffer and returns
ChunkRead ==
    /\ pc = "read_in_chunks"
    /\ \E seek_ok \in BOOLEAN :
         LET c == read_in_chunks_iter(ck, file, opts.split_null, ~fd.direct,
                                      limit, fd.burst, seek_ok)
             r == read_in_chunks_return(c, buff)
         IN  /\ ck' = c
             /\ pos' = c.pos
             /\ IF read_in_chunks_left(c)
                THEN buff' = r.buff /\ exit_res' = r.res /\ pc' = "acquired"
                ELSE UNCHANGED <<buff, exit_res, pc>>
    /\ UNCHANGED path_vars
    /\ UNCHANGED argv
    /\ UNCHANGED <<opts, ifs, argc, fd,
                   file, limit, oc, var_ptr, vars, out, writes,
                   nacq, strategy, start>>

\* one read of read_one_char_at_a_time
CharRead ==
    /\ pc = "read_one_char"
    /\ LET o == read_one_char_iter(oc, file, opts.nchars, opts.split_null, limit)
       IN  /\ oc' = o
           /\ pos' = o.pos
           /\ buff' = o.buff
           /\ IF o.done
              THEN exit_res' = o.exit_res /\ pc' = "acquired"
              ELSE UNCHANGED <<exit_res, pc>>
    /\ UNCHANGED path_vars
    /\ UNCHANGED argv
    /\ UNCHANGED <<opts, ifs, argc, fd,
                   file, limit, ck, var_ptr, vars, out, writes,
                   nacq, strategy, start>>

--------------------------------------------------------------------------
(* The splitters read() calls (wcstringutil, tokenizer, common).           *)

\* does `needle` occur in h at index i (1-based)
occurs_at(h, needle, i) ==
    /\ i + Len(needle) - 1 <= Len(h)
    /\ \A k \in 1..Len(needle) : h[i + k - 1] = needle[k]

\* split_about(haystack, needle, max, false), needle not empty: split at
\* the first `max` occurrences of needle; the last piece is the remainder
RECURSIVE split_about(_, _, _)
split_about(h, needle, max) ==
    LET hits == {i \in 1..Len(h) : occurs_at(h, needle, i)}
    IN  IF max = 0 \/ h = <<>> \/ hits = {}
        THEN <<h>>
        ELSE LET i == SetMin(hits)
             IN  <<SubSeq(h, 1, i - 1)>>
                 \o split_about(SubSeq(h, i + Len(needle), Len(h)), needle, max - 1)

\* no cap on the number of pieces (usize::MAX)
NoMax == -1

IsSep(seps, c) == \E k \in 1..Len(seps) : seps[k] = c

\* split_string_tok(val, seps, max_results): every character of seps is a
\* separator; leading separators of a token are skipped; once
\* max_results - 1 tokens are out, the rest of val is the last token
RECURSIVE split_string_tok_from(_, _, _, _, _)
split_string_tok_from(val, seps, max_results, cur, n_out) ==
    LET end == Len(val)
        rest == {i \in (cur + 1)..end : ~IsSep(seps, val[i])}
    IN  IF cur < end /\ (max_results = NoMax \/ n_out + 1 < max_results)
        THEN IF rest = {} THEN <<>>
             ELSE LET from == SetMin(rest)
                      seps_after == {i \in from..end : IsSep(seps, val[i])}
                      next_sep == IF seps_after = {} THEN end + 1
                                  ELSE SetMin(seps_after)
                  IN  <<SubSeq(val, from, next_sep - 1)>>
                      \o split_string_tok_from(val, seps, max_results,
                                               next_sep, n_out + 1)
        ELSE IF cur < end /\ max_results # 0
        THEN <<SubSeq(val, cur + 1, end)>>
        ELSE <<>>

split_string_tok(val, seps, max_results) ==
    split_string_tok_from(val, seps, max_results, 0, 0)

\* Tokenizer: the tokens of a text as <<first, last>> index pairs.  A token
\* is a maximal run of characters other than blanks; a backslash takes the
\* next character into the token.
IsBlank(c) == c = 32

RECURSIVE token_end(_, _)
token_end(s, i) ==
    IF i > Len(s) \/ IsBlank(s[i]) THEN i - 1
    ELSE IF s[i] = 92 /\ i < Len(s) THEN token_end(s, i + 2)
    ELSE token_end(s, i + 1)

RECURSIVE tokens_from(_, _)
tokens_from(s, i) ==
    LET solid == {k \in i..Len(s) : ~IsBlank(s[k])}
    IN  IF solid = {} THEN <<>>
        ELSE LET from == SetMin(solid)
                 to == token_end(s, from)
             IN  <<(<<from, to>>)>> \o tokens_from(s, to + 1)

Tokenizer(s) == tokens_from(s, 1)

\* the character a backslash and c stand for, outside quotes: the letters
\* of the control characters, else c itself (numeric escapes not modelled)
escape_char(c) ==
    IF c = 97 THEN 7 ELSE IF c = 98 THEN 8 ELSE IF c = 101 THEN 27
    ELSE IF c = 102 THEN 12 ELSE IF c = 110 THEN 10 ELSE IF c = 114 THEN 13
    ELSE IF c = 116 THEN 9 ELSE IF c = 118 THEN 11 ELSE c

\* unescape_string(text, UnescapeStringStyle::default()): a backslash and
\* the character after it become one character; a backslash with nothing
\* after it is an error and the result is None
RECURSIVE unescape_string(_)
unescape_string(s) ==
    IF s = <<>> THEN [some |-> TRUE, val |-> <<>>]
    ELSE IF s[1] = 92 /\ Len(s) = 1 THEN [some |-> FALSE, val |-> <<>>]
    ELSE LET esc == s[1] = 92
             r == unescape_string(SubSeq(s, IF esc THEN 3 ELSE 2, Len(s)))
         IN  IF r.some
             THEN [some |-> TRUE,
                   val |-> <<IF esc THEN escape_char(s[2]) ELSE s[1]>> \o r.val]
             ELSE r

text_of(s, t) == SubSeq(s, t[1], t[2])

--------------------------------------------------------------------------
(* read (read.rs 533-791).                                                 *)

\* the scopes of EnvMode of which a call may name one (read.rs 455-460)
Scopes == {"LOCAL", "FUNCTION", "GLOBAL", "UNIVERSAL"}

\* a name is invalid or read-only (read.rs 509-527)
bad_name(names) ==
    \E i \in 1..Len(names) : ~names[i].valid \/ names[i].read_only

\* variant: a validation without the checks on --tokenize
validate_read_args_tokenize_unchecked(o, names) ==
    LET n == Len(names)
    IN  IF o.prompt.some /\ o.prompt_str.some THEN STATUS_INVALID_ARGS
        ELSE IF o.delimiter.some /\ o.one_line THEN STATUS_INVALID_ARGS
        ELSE IF o.one_line /\ o.split_null THEN STATUS_INVALID_ARGS
        ELSE IF "UNEXPORT" \in o.place /\ "EXPORT" \in o.place
        THEN STATUS_INVALID_ARGS
        ELSE IF Cardinality(o.place \cap Scopes) > 1 THEN STATUS_INVALID_ARGS
        ELSE IF ~o.array /\ n < 1 /\ ~o.to_stdout THEN STATUS_INVALID_ARGS
        ELSE IF o.array /\ n # 1 THEN STATUS_INVALID_ARGS
        ELSE IF o.to_stdout /\ n > 0 THEN STATUS_INVALID_ARGS
        ELSE IF bad_name(names) THEN STATUS_INVALID_ARGS
        ELSE SUCCESS

\* validate_read_args (read.rs 406-530): the result
validate_read_args(o, names) ==
    LET n == Len(names)
    IN  IF o.prompt.some /\ o.prompt_str.some THEN STATUS_INVALID_ARGS
        ELSE IF o.delimiter.some /\ o.one_line THEN STATUS_INVALID_ARGS
        ELSE IF o.one_line /\ o.split_null THEN STATUS_INVALID_ARGS
        ELSE IF "UNEXPORT" \in o.place /\ "EXPORT" \in o.place
        THEN STATUS_INVALID_ARGS
        ELSE IF Cardinality(o.place \cap Scopes) > 1 THEN STATUS_INVALID_ARGS
        ELSE IF ~o.array /\ n < 1 /\ ~o.to_stdout THEN STATUS_INVALID_ARGS
        ELSE IF o.array /\ n # 1 THEN STATUS_INVALID_ARGS
        ELSE IF o.to_stdout /\ n > 0 THEN STATUS_INVALID_ARGS
        ELSE IF o.tokenize /\ o.delimiter.some THEN STATUS_INVALID_ARGS
        ELSE IF o.tokenize /\ o.one_line THEN STATUS_INVALID_ARGS
        ELSE IF bad_name(names) THEN STATUS_INVALID_ARGS
        ELSE SUCCESS

\* validate_read_args, what it does to the options (read.rs 442-446), once
\* the checks before it have passed: the prompt in force is the one made
\* from -P, else the one of -p, else the default one.  The texts are named,
\* not spelled out.
with_prompt(o) ==
    IF \/ o.prompt.some /\ o.prompt_str.some
       \/ o.delimiter.some /\ o.one_line
       \/ o.one_line /\ o.split_null
    THEN o
    ELSE IF o.prompt_str.some
    THEN [o EXCEPT !.prompt = Some(<<"echo", "escape(prompt_str)">>)]
    ELSE IF ~o.prompt.some
    THEN [o EXCEPT !.prompt = Some(<<"DEFAULT_READ_PROMPT">>)]
    ELSE o

\* variant: a read that never turns to printing
with_to_stdout_never(o, n) == o

\* read.rs 546-548: no variable named means print to stdout
with_to_stdout(o, n) == [o EXCEPT !.to_stdout = @ \/ n = 0]

\* read.rs 565-570: --line is read -d \n repeated
with_one_line(o) ==
    IF o.one_line THEN [o EXCEPT !.delimiter = Some(<<10>>), !.split_null = FALSE]
    ELSE o

\* read.rs 573
vars_left(n, vp) == n - vp

\* variant: a choice that takes the chunked strategy on a terminal too
select_strategy_any_descriptor(o, d) ==
    IF d.tty /\ ~o.split_null THEN "interactive"
    ELSE IF o.nchars = 0 /\ ~o.one_line /\ (d.direct \/ d.seekable)
    THEN "chunks"
    ELSE "chars"

\* the strategy the loop picks (read.rs 589-627)
select_strategy(o, d) ==
    IF d.tty /\ ~o.split_null THEN "interactive"
    ELSE IF o.nchars = 0 /\ ~d.tty /\ ~o.one_line /\ (d.direct \/ d.seekable)
    THEN "chunks"
    ELSE "chars"

\* variant: a loop that goes on for as long as --line is given
loop_again_ignores_slots(o, n, vp) == o.one_line

\* the loop goes round again (read.rs 676-679, 780-782)
loop_again(o, n, vp) == ~(~o.one_line \/ vars_left(n, vp) = 0)

\* one call of set_var_and_fire / set_empty on slot i
fire(i) == [slot |-> i, by |-> "set_var_and_fire"]
quiet(i) == [slot |-> i, by |-> "set_empty"]

\* does the call fire the variable-changed event: Parser::set_var_and_fire
\* sets the variable and fires it, EnvStack::set_empty only sets
notifies(w) == w.by = "set_var_and_fire"

\* variant: a clearing that leaves the first remaining variable alone
clear_remaining_vars_skips_one(vs, n, vp) ==
    [i \in 1..n |-> IF i > vp + 1 THEN [set |-> TRUE, val |-> <<>>] ELSE vs[i]]

\* clear_remaining_vars (read.rs 574-579): the variables afterwards
clear_remaining_vars(vs, n, vp) ==
    [i \in 1..n |-> IF i > vp THEN [set |-> TRUE, val |-> <<>>] ELSE vs[i]]

clear_remaining_log(n, vp) == [k \in 1..(n - vp) |-> quiet(vp + k)]

\* variant: the last variable given one more unescaped token
tokenize_fields_all_unescaped(b, array, left) ==
    LET toks == Tokenizer(b)
        unesc(i) == LET text == text_of(b, toks[i])
                        u == unescape_string(text)
                    IN  IF u.some THEN u.val ELSE text
    IN  IF array THEN << [i \in 1..Len(toks) |-> unesc(i)] >>
        ELSE [i \in 1..Min(left, Len(toks)) |-> <<unesc(i)>>]

\* --tokenize (read.rs 639-673): the values assigned, in order
tokenize_fields(b, array, left) ==
    LET toks == Tokenizer(b)
        unesc(i) == LET text == text_of(b, toks[i])
                        u == unescape_string(text)
                    IN  IF u.some THEN u.val ELSE text
        k == Min(left - 1, Len(toks))
    IN  IF array THEN << [i \in 1..Len(toks) |-> unesc(i)] >>
        ELSE [i \in 1..k |-> <<unesc(i)>>]
             \o (IF Len(toks) > k
                 THEN << <<SubSeq(b, toks[k + 1][1], Len(b))>> >>
                 ELSE <<>>)

\* variant: one character for every variable, the last one too
char_fields_no_tail(b, array, left) ==
    IF array THEN << [i \in 1..Len(b) |-> <<b[i]>>] >>
    ELSE [i \in 1..Min(Len(b), left) |-> << <<b[i]>> >>]

\* the empty delimiter (read.rs 692-723)
char_fields(b, array, left) ==
    IF array THEN << [i \in 1..Len(b) |-> <<b[i]>>] >>
    ELSE [i \in 1..Min(Len(b), left) |->
             IF i < left THEN << <<b[i]>> >> ELSE <<SubSeq(b, i, Len(b))>>]

\* variant: array mode splitting for one variable, the rest kept whole
array_fields_one_slot(b, delimiter, explicit) ==
    IF explicit THEN <<split_about(b, delimiter, 0)>>
    ELSE <<split_string_tok(b, delimiter, 1)>>

\* array mode with a delimiter (read.rs 724-745)
array_fields(b, delimiter, explicit) ==
    IF explicit THEN <<split_about(b, delimiter, NoMax)>>
    ELSE <<split_string_tok(b, delimiter, NoMax)>>

\* variant: split at every separator and keep the first tokens only
ifs_fields_no_remainder(b, delimiter, left) ==
    LET toks == split_string_tok(b, delimiter, NoMax)
        var_vals == SubSeq(toks, 1, Min(left, Len(toks)))
    IN  [i \in 1..left |-> IF i <= Len(var_vals) THEN <<var_vals[i]>>
                           ELSE << <<>> >>]

\* IFS splitting over the variables left (read.rs 748-766)
ifs_fields(b, delimiter, left) ==
    LET var_vals == split_string_tok(b, delimiter, left)
    IN  [i \in 1..left |-> IF i <= Len(var_vals) THEN <<var_vals[i]>>
                           ELSE << <<>> >>]

\* variant: the pieces without the empty ones
delimiter_splits_no_empty(b, delimiter, n) ==
    LET ps == split_about(b, delimiter, n - 1)
        keep == {i \in 1..Len(ps) : ps[i] # <<>>}
    IN  [k \in 1..Cardinality(keep) |->
            ps[CHOOSE i \in keep : Cardinality({h \in keep : h < i}) = k - 1]]

\* variant: split at every occurrence and keep the first n pieces
delimiter_splits_cut(b, delimiter, n) ==
    SubSeq(split_about(b, delimiter, NoMax), 1, n)

\* the user's delimiter (read.rs 767-777)
delimiter_splits(b, delimiter, n) == split_about(b, delimiter, n - 1)

\* read.rs 639-778: what one pass assigns for the text b.  ifs_val is the
\* value of IFS (empty when unset).  panic: an assertion or a bounds check
\* of the pass fails.
fields(o, n, vp, b, ifs_val) ==
    LET left == vars_left(n, vp)
        delimiter == IF o.delimiter.some THEN o.delimiter.val ELSE ifs_val
        vals == IF o.tokenize THEN tokenize_fields(b, o.array, left)
                ELSE IF delimiter = <<>> THEN char_fields(b, o.array, left)
                ELSE IF o.array
                THEN array_fields(b, delimiter, o.delimiter.some)
                ELSE IF ~o.delimiter.some THEN ifs_fields(b, delimiter, left)
                ELSE [i \in 1..Len(delimiter_splits(b, delimiter, n)) |->
                         <<delimiter_splits(b, delimiter, n)[i]>>]
    IN  [vals |-> vals, panic |-> Len(vals) > left]

assign(vs, n, vp, vals) ==
    [i \in 1..n |-> IF vp < i /\ i <= vp + Len(vals)
                    THEN [set |-> TRUE, val |-> vals[i - vp]] ELSE vs[i]]

\* variant: the values of one pass assigned from the last to the first
assign_log_last_first(vp, vals) ==
    [k \in 1..Len(vals) |-> fire(vp + Len(vals) + 1 - k)]

assign_log(vp, vals) == [k \in 1..Len(vals) |-> fire(vp + k)]

\* what builtin_print_help may leave on streams.out: the help text of read
HelpText == <<104, 101, 108, 112>>

\* read.rs 546-570: to_stdout, --help, validation, the closed descriptor,
\* --line.  builtin_print_help (550-553) runs before validate_read_args;
\* whether its text reaches streams.out or the terminal is its business,
\* so both are allowed.
Begin ==
    /\ pc = "start"
    /\ LET o == with_to_stdout(opts, argc)
           v == validate_read_args(o, argv)
           w == with_prompt(o)
       IN  IF o.print_help
           THEN /\ opts' = o /\ exit_res' = SUCCESS /\ pc' = "done"
                /\ \E shown \in BOOLEAN :
                     out' = IF shown THEN Append(out, HelpText) ELSE out
           ELSE IF v # SUCCESS
           THEN opts' = w /\ exit_res' = v /\ pc' = "done" /\ out' = out
           ELSE IF fd.closed
           THEN /\ opts' = w /\ exit_res' = STATUS_CMD_ERROR /\ pc' = "done"
                /\ out' = out
           ELSE /\ opts' = with_one_line(w) /\ exit_res' = exit_res
                /\ pc' = "loop" /\ out' = out
    /\ UNCHANGED path_vars
    /\ UNCHANGED argv
    /\ UNCHANGED <<ifs, argc, fd, file, pos, limit, ck, oc, buff, var_ptr, vars,
                   writes, nacq, strategy, start>>

\* the top of the loop (read.rs 586-627): clear buff, enter a strategy
Acquire ==
    /\ pc = "loop"
    /\ buff' = <<>>
    /\ strategy' = select_strategy(opts, fd)
    /\ pc' = IF strategy' = "interactive" THEN "read_interactive"
             ELSE IF strategy' = "chunks" THEN "read_in_chunks"
             ELSE "read_one_char"
    /\ nacq' = nacq + 1
    /\ start' = pos
    /\ ck' = read_in_chunks_entry(pos)
    /\ oc' = read_one_char_entry(pos, <<>>)
    /\ UNCHANGED path_vars
    /\ UNCHANGED argv
    /\ UNCHANGED <<opts, ifs, argc, fd,
                   file, pos, limit, exit_res, var_ptr, vars,
                   out, writes>>

\* what reader_readline may return: no line, or a line
EditorLines == {<<>>, <<97>>, <<44>>, <<97, 44, 97>>, <<97, 32, 97>>,
                <<97, 10, 97>>}

Interactive ==
    /\ pc = "read_interactive"
    /\ \E mline \in {None} \cup {Some(l) : l \in EditorLines} :
         LET r == read_interactive(buff, opts.nchars, mline)
         IN  buff' = r.buff /\ exit_res' = r.res
    /\ pc' = "acquired"
    /\ UNCHANGED path_vars
    /\ UNCHANGED argv
    /\ UNCHANGED <<opts, ifs, argc, fd,
                   file, pos, limit, ck, oc, var_ptr, vars,
                   out, writes, nacq, strategy, start>>

IFSValues == {<<>>, <<32>>, <<32, 44>>}

\* read.rs 629-790: after the acquisition, to the next pass or the return
Distribute ==
    /\ pc = "acquired"
    /\   LET f == fields(opts, argc, var_ptr, buff, ifs)
             vp == var_ptr + Len(f.vals)
             vs == assign(vars, argc, var_ptr, f.vals)
             ws == writes \o assign_log(var_ptr, f.vals)
         IN  IF exit_res # SUCCESS
             THEN /\ vars' = clear_remaining_vars(vars, argc, var_ptr)
                  /\ writes' = writes \o clear_remaining_log(argc, var_ptr)
                  /\ var_ptr' = argc
                  /\ pc' = "done"
                  /\ out' = out
             ELSE IF opts.to_stdout
             THEN /\ out' = Append(out, buff)
                  /\ pc' = "done"
                  /\ UNCHANGED <<vars, writes, var_ptr>>
             ELSE IF f.panic
             THEN /\ pc' = "panic"
                  /\ UNCHANGED <<vars, writes, var_ptr, out>>
             ELSE IF loop_again(opts, argc, vp)
             THEN /\ vars' = vs /\ writes' = ws /\ var_ptr' = vp
                  /\ pc' = "loop"
                  /\ out' = out
             ELSE IF opts.array
             THEN /\ vars' = vs /\ writes' = ws /\ var_ptr' = vp
                  /\ pc' = "done"
                  /\ out' = out
             ELSE /\ vars' = clear_remaining_vars(vs, argc, vp)
                  /\ writes' = ws \o clear_remaining_log(argc, vp)
                  /\ var_ptr' = argc
                  /\ pc' = "done"
                  /\ out' = out
    /\ UNCHANGED path_vars
    /\ UNCHANGED argv
    /\ UNCHANGED <<opts, ifs, argc, fd,
                   file, pos, limit, ck, oc, buff, exit_res,
                   nacq, strategy, start>>

--------------------------------------------------------------------------
(* Spec: one invocation of read without --help, from the parsed options to *)
(* the return.                                                             *)

SpecChars == {97, 44, 32, 10}

SpecFiles == {wcs2string(t) : t \in UNION {[1..n -> SpecChars] : n \in 0..MaxLen}}

SpecLimits == {2, 1000}

SpecDelimiters == {None, Some(<<>>), Some(<<44>>)}

SpecNChars == {0, 2}

\* closed, a terminal, or neither; seekable and directly redirected or not
SpecDescriptors ==
    {[closed |-> c, tty |-> t, seekable |-> s, direct |-> d, burst |-> b,
      fail |-> None] :
        c \in BOOLEAN, t \in BOOLEAN, s \in BOOLEAN, d \in BOOLEAN,
        b \in {READ_CHUNK_SIZE}}

Init ==
    /\ Idle /\ NoPath
    /\ pc = "start" /\ strategy = "none" /\ nacq = 0 /\ pos = 0 /\ start = 0
    /\ argc \in 0..MaxVars
    /\ vars = [i \in 1..argc |-> Untouched]
    /\ argv = [i \in 1..argc |-> GoodName]
    /\ \E a \in BOOLEAN, t \in BOOLEAN, l \in BOOLEAN, z \in BOOLEAN,
          n \in SpecNChars, d \in SpecDelimiters :
         opts = [DefaultOptions EXCEPT !.array = a, !.tokenize = t,
                     !.one_line = l, !.split_null = z, !.nchars = n,
                     !.delimiter = d]
    /\ fd \in SpecDescriptors
    \* a terminal is not seekable, but can be what `<` redirects from
    /\ fd.closed => ~fd.seekable /\ ~fd.direct
    /\ fd.tty => ~fd.seekable
    /\ fd.closed => ~fd.tty
    \* a descriptor read() never reads from has no content to tell apart
    \* the value of IFS is told apart only where read() looks it up
    /\ IF validate_read_args(with_to_stdout(opts, argc), argv) # SUCCESS
          \/ fd.closed \/ opts.delimiter.some \/ opts.one_line
          \/ opts.tokenize \/ argc = 0
       THEN ifs = <<>>
       ELSE ifs \in IFSValues
    /\ IF validate_read_args(with_to_stdout(opts, argc), argv) # SUCCESS
          \/ fd.closed
       THEN file = <<>> /\ limit = 1000
       ELSE IF select_strategy(opts, fd) = "interactive"
       THEN file = <<>> /\ limit \in SpecLimits
       ELSE file \in SpecFiles /\ limit \in SpecLimits

Next == Begin \/ Acquire \/ Interactive \/ ChunkRead \/ CharRead \/ Distribute

Spec == Init /\ [][Next]_vars_all

--------------------------------------------------------------------------
(* SpecHelp: one invocation of read, with --help or without, with scope,  *)
(* export and prompt options and names that pass validate_read_args or do  *)
(* not.  An invocation that returns for its arguments looks at nothing but *)
(* them.                                                                   *)

\* opts.place as the scope and export options leave it (read.rs 117-179)
SpecPlaces == {{"USER"}, {"USER", "GLOBAL", "EXPORT"},
               {"USER", "EXPORT", "UNEXPORT"}, {"USER", "LOCAL", "GLOBAL"}}

\* -p and -P: neither, one of them, both
SpecPrompts == {<<None, None>>, <<Some(<<"-p">>), None>>,
                <<None, Some(<<"-P">>)>>, <<Some(<<"-p">>), Some(<<"-P">>)>>}

\* n names, at most one of them invalid or read-only
SpecNames(n) ==
    {[i \in 1..n |-> GoodName]}
    \cup {[i \in 1..n |-> IF i = k THEN b ELSE GoodName] :
            k \in 1..n, b \in {InvalidName, ReadOnlyName}}

HelpInit ==
    \/ Init
    \/ /\ Idle /\ NoPath
       /\ pc = "start" /\ strategy = "none" /\ nacq = 0 /\ pos = 0
       /\ start = 0
       /\ argc \in 0..MaxVars
       /\ vars = [i \in 1..argc |-> Untouched]
       /\ argv \in SpecNames(argc)
       /\ \E h \in BOOLEAN, a \in BOOLEAN, t \in BOOLEAN, l \in BOOLEAN,
             z \in BOOLEAN, d \in {None, Some(<<44>>)}, pl \in SpecPlaces,
             pr \in SpecPrompts :
            opts = [DefaultOptions EXCEPT !.print_help = h, !.array = a,
                        !.tokenize = t, !.one_line = l, !.split_null = z,
                        !.delimiter = d, !.place = pl, !.prompt = pr[1],
                        !.prompt_str = pr[2]]
       /\ \/ opts.print_help
          \/ validate_read_args(with_to_stdout(opts, argc), argv) # SUCCESS
       /\ fd \in SpecDescriptors
       /\ ~fd.tty /\ ~fd.seekable /\ ~fd.direct
       /\ ifs = <<>> /\ file = <<>> /\ limit = 1000

SpecHelp == HelpInit /\ [][Next]_vars_all

--------------------------------------------------------------------------
(* SpecLive: one invocation of read with or without --line, on an open     *)
(* descriptor, that runs on for as long as it has a step to take.  read()  *)
(* is straight-line code run by one thread, so a step that can be taken is *)
(* taken; that read_blocked and the editor return is what the weak         *)
(* fairness of ChunkRead, CharRead and Interactive stands for.             *)

LiveInit ==
    /\ Idle /\ NoPath
    /\ pc = "start" /\ strategy = "none" /\ nacq = 0 /\ pos = 0 /\ start = 0
    /\ argc \in 0..MaxVars
    /\ vars = [i \in 1..argc |-> Untouched]
    /\ argv = [i \in 1..argc |-> GoodName]
    /\ \E a \in BOOLEAN, l \in BOOLEAN, n \in SpecNChars :
         opts = [DefaultOptions EXCEPT !.array = a, !.one_line = l,
                     !.nchars = n]
    /\ validate_read_args(with_to_stdout(opts, argc), argv) = SUCCESS
    /\ fd \in SpecDescriptors
    /\ ~fd.closed
    /\ fd.tty => ~fd.seekable
    /\ ifs = IF opts.one_line \/ argc = 0 THEN <<>> ELSE <<32>>
    /\ limit \in SpecLimits
    /\ IF select_strategy(opts, fd) = "interactive"
       THEN file = <<>>
       ELSE file \in SpecFiles

SpecLive == LiveInit /\ [][Next]_vars_all /\ WF_vars_all(Next)

--------------------------------------------------------------------------
(* SpecAcq: the chunked and the byte-at-a-time strategy called on their    *)
(* own, with every combination of their parameters, on descriptors long    *)
(* enough to cross the chunk size.                                         *)

AcqChars == {97, 10, 0, 8364}

AcqTails == UNION {[1..n -> AcqChars] : n \in 0..MaxTail}

\* an unfinished sequence: one that end of input cuts short when placed
\* last, one that the next byte shows to be malformed when placed first
AcqPartial == {<<>>, <<226, 130>>}

Fill(k) == [i \in 1..k |-> 97]

\* <<bytes of filler before the tail, bytes one read hands over at most>>
AcqShapes == {<<0, 1>>, <<0, 2>>, <<0, 128>>, <<127, 128>>, <<128, 128>>}

AcqLimits == {0, 1, 2, 3, 128, 129}

AcqNChars == {0, 1, 2}

AcqInit ==
    /\ Idle /\ NoPath
    /\ argc = 0 /\ argv = <<>> /\ vars = <<>>
    /\ nacq = 1 /\ pos = 0 /\ start = 0
    /\ ifs = <<>>
    /\ limit \in AcqLimits
    /\ strategy \in {"chunks", "chars"}
    /\ pc = IF strategy = "chunks" THEN "read_in_chunks" ELSE "read_one_char"
    /\ \E sn \in BOOLEAN, n \in AcqNChars :
         /\ strategy = "chunks" => n = 0
         /\ opts = [DefaultOptions EXCEPT !.split_null = sn, !.nchars = n]
    /\ \E sh \in AcqShapes, direct \in BOOLEAN, t \in AcqTails, p \in AcqPartial :
         /\ strategy = "chars" => sh = <<0, 1>> /\ ~direct
         /\ fd = [closed |-> FALSE, tty |-> FALSE, seekable |-> ~direct,
                  direct |-> direct, burst |-> sh[2], fail |-> None]
         /\ file \in {Fill(sh[1]) \o wcs2string(t) \o p,
                      Fill(sh[1]) \o p \o wcs2string(t)}

\* the same function called again on the same descriptor
Again ==
    /\ pc = "acquired"
    /\ exit_res = SUCCESS
    /\ pos < Len(file)
    /\ buff' = <<>>
    /\ start' = pos
    /\ nacq' = nacq + 1
    /\ ck' = read_in_chunks_entry(pos)
    /\ oc' = read_one_char_entry(pos, <<>>)
    /\ pc' = IF strategy = "chunks" THEN "read_in_chunks" ELSE "read_one_char"
    /\ UNCHANGED path_vars
    /\ UNCHANGED argv
    /\ UNCHANGED <<opts, ifs, argc, fd,
                   file, pos, limit, exit_res, var_ptr, vars,
                   out, writes, strategy>>

AcqNext == ChunkRead \/ CharRead \/ Again

SpecAcq == AcqInit /\ [][AcqNext]_vars_all

--------------------------------------------------------------------------
(* SpecSplit: one invocation of read on a descriptor that is no terminal   *)
(* and holds one newline-terminated record, the record drawn from an       *)
(* alphabet with the blank, the comma and the backslash.                   *)

SplitChars == {97, 32, 44, 92}

SplitUnits == UNION {[1..n -> SplitChars] : n \in 0..MaxUnit}

SplitDelimiters == SpecDelimiters \cup {Some(<<44, 44>>)}

SplitInit ==
    /\ Idle /\ NoPath
    /\ pc = "start" /\ strategy = "none" /\ nacq = 0 /\ pos = 0 /\ start = 0
    /\ argc \in 0..MaxVars
    /\ vars = [i \in 1..argc |-> Untouched]
    /\ argv = [i \in 1..argc |-> GoodName]
    /\ \E a \in BOOLEAN, t \in BOOLEAN, l \in BOOLEAN, d \in SplitDelimiters :
         opts = [DefaultOptions EXCEPT !.array = a, !.tokenize = t,
                     !.one_line = l, !.delimiter = d]
    /\ fd = [closed |-> FALSE, tty |-> FALSE, seekable |-> TRUE,
             direct |-> FALSE, burst |-> READ_CHUNK_SIZE, fail |-> None]
    /\ limit = 1000
    /\ IF validate_read_args(with_to_stdout(opts, argc), argv) # SUCCESS
          \/ opts.delimiter.some \/ opts.one_line \/ opts.tokenize \/ argc = 0
       THEN ifs = <<>>
       ELSE ifs \in IFSValues
    /\ IF validate_read_args(with_to_stdout(opts, argc), argv) # SUCCESS
       THEN file = <<>>
       ELSE \E u \in SplitUnits : file = wcs2string(u) \o <<10>>

SplitNext == Begin \/ Acquire \/ ChunkRead \/ CharRead \/ Distribute

SpecSplit == SplitInit /\ [][SplitNext]_vars_all

--------------------------------------------------------------------------
(* SpecErr: the chunked and the byte-at-a-time strategy on a descriptor    *)
(* whose reads fail with an I/O error from some offset on.                 *)

ErrShapes == {<<0, 1>>, <<0, 128>>, <<128, 128>>}

ErrLimits == {2, 1000}

ErrInit ==
    /\ Idle /\ NoPath
    /\ argc = 0 /\ argv = <<>> /\ vars = <<>>
    /\ nacq = 1 /\ pos = 0 /\ start = 0
    /\ ifs = <<>>
    /\ limit \in ErrLimits
    /\ strategy \in {"chunks", "chars"}
    /\ pc = IF strategy = "chunks" THEN "read_in_chunks" ELSE "read_one_char"
    /\ \E sn \in BOOLEAN, n \in AcqNChars :
         /\ strategy = "chunks" => n = 0
         /\ opts = [DefaultOptions EXCEPT !.split_null = sn, !.nchars = n]
    /\ \E sh \in ErrShapes, direct \in BOOLEAN, t \in AcqTails,
          k \in 0..(READ_CHUNK_SIZE + MaxTail) :
         /\ strategy = "chars" => sh = <<0, 1>> /\ ~direct
         /\ file = Fill(sh[1]) \o wcs2string(t)
         /\ k \in {0, sh[1]} \/ (sh[1] < k /\ k <= Len(file))
         /\ fd = [closed |-> FALSE, tty |-> FALSE, seekable |-> ~direct,
                  direct |-> direct, burst |-> sh[2], fail |-> Some(k)]

SpecErr == ErrInit /\ [][AcqNext]_vars_all

--------------------------------------------------------------------------
(* SpecDirect: the chunked strategy on descriptors whose first record is   *)
(* short and is followed by bytes enough to fill the first chunk.          *)

\* bytes after the tail: one short of a chunk, and two more
DirectFills == {READ_CHUNK_SIZE - 2, READ_CHUNK_SIZE - 1, READ_CHUNK_SIZE}

\* bytes one read hands over at most
DirectBursts == {READ_CHUNK_SIZE \div 2, READ_CHUNK_SIZE}

DirectLimits == {3, 1000}

DirectInit ==
    /\ Idle /\ NoPath
    /\ argc = 0 /\ argv = <<>> /\ vars = <<>>
    /\ nacq = 1 /\ pos = 0 /\ start = 0
    /\ ifs = <<>>
    /\ limit \in DirectLimits
    /\ strategy = "chunks" /\ pc = "read_in_chunks"
    /\ \E sn \in BOOLEAN : opts = [DefaultOptions EXCEPT !.split_null = sn]
    /\ \E direct \in BOOLEAN, b \in DirectBursts, t \in AcqTails,
          k \in DirectFills :
         /\ fd = [closed |-> FALSE, tty |-> FALSE, seekable |-> ~direct,
                  direct |-> direct, burst |-> b, fail |-> None]
         /\ file = wcs2string(t) \o Fill(k)

DirectNext == ChunkRead \/ Again

SpecDirect == DirectInit /\ [][DirectNext]_vars_all

--------------------------------------------------------------------------
(* path_make_canonical (path.rs 431-453).                                  *)

\* the loop of 439-449 from index `read` (0-based) on: chars is the
\* buffer written in place
RECURSIVE canonical_loop(_, _, _, _)
canonical_loop(chars, read, written, prev_was_slash) ==
    IF read >= Len(chars)
    THEN [chars |-> chars, written |-> written,
          prev_was_slash |-> prev_was_slash]
    ELSE LET c == chars[read + 1]
             is_slash == c = 47
         IN  IF prev_was_slash /\ is_slash
             THEN canonical_loop(chars, read + 1, written, prev_was_slash)
             ELSE canonical_loop([chars EXCEPT ![written + 1] = c],
                                 read + 1, written + 1, is_slash)

\* the text the call leaves in `path`
path_make_canonical(p) ==
    LET r == canonical_loop(p, 0, 0, FALSE)
    IN  IF r.written > 1
        THEN truncate(r.chars, r.written - (IF r.prev_was_slash THEN 1 ELSE 0))
        ELSE r.chars

\* no read is at work
NoRead ==
    /\ Idle
    /\ opts = DefaultOptions /\ argc = 0 /\ argv = <<>> /\ vars = <<>>
    /\ fd = [closed |-> TRUE, tty |-> FALSE, seekable |-> FALSE,
             direct |-> FALSE, burst |-> READ_CHUNK_SIZE, fail |-> None]
    /\ file = <<>> /\ pos = 0 /\ limit = READ_CHUNK_SIZE /\ ifs = <<>>
    /\ pc = "none" /\ strategy = "none" /\ nacq = 0 /\ start = 0

--------------------------------------------------------------------------
(* paths_are_equivalent (path.rs 455-502).                                 *)

\* the loops of 467-472: the length without the trailing slashes after
\* the first character
RECURSIVE trimmed_len(_, _)
trimmed_len(p, len) ==
    IF len > 1 /\ p[len] = 47 THEN trimmed_len(p, len - 1) ELSE len

\* the loops of 491-496: from idx (0-based) walk on over slashes
RECURSIVE skip_slashes(_, _)
skip_slashes(p, idx) ==
    IF idx < Len(p) /\ p[idx + 1] = 47 THEN skip_slashes(p, idx + 1) ELSE idx

\* the walk of 475-497
RECURSIVE equivalent_walk(_, _, _, _, _, _)
equivalent_walk(p1, p2, len1, len2, idx1, idx2) ==
    IF idx1 < len1 /\ idx2 < len2
    THEN LET c1 == p1[idx1 + 1]
             c2 == p2[idx2 + 1]
         IN  IF c1 # c2 THEN [idx1 |-> idx1, idx2 |-> idx2]
             ELSE equivalent_walk(p1, p2, len1, len2,
                      IF c1 = 47 THEN skip_slashes(p1, idx1 + 1) ELSE idx1 + 1,
                      IF c2 = 47 THEN skip_slashes(p2, idx2 + 1) ELSE idx2 + 1)
    ELSE [idx1 |-> idx1, idx2 |-> idx2]

paths_are_equivalent(p1, p2) ==
    IF p1 = p2 THEN TRUE
    ELSE LET len1 == trimmed_len(p1, Len(p1))
             len2 == trimmed_len(p2, Len(p2))
             w == equivalent_walk(p1, p2, len1, len2, 0, 0)
         IN  w.idx1 = len1 /\ w.idx2 = len2

--------------------------------------------------------------------------
(* path_apply_working_directory (path.rs 535-566) and                      *)
(* append_path_component (path.rs 770-787).                                *)

\* the character expand_tilde puts for the home directory (expand.rs)
HOME_DIRECTORY == 64976

starts_with(t, prefix) ==
    Len(t) >= Len(prefix) /\ SubSeq(t, 1, Len(prefix)) = prefix

\* replace_range(0..n, ""): the text without its first n characters
drop_front(t, n) == SubSeq(t, n + 1, Len(t))

\* the loop of 555-557
RECURSIVE strip_leading_slashes(_)
strip_leading_slashes(t) ==
    IF starts_with(t, <<47>>) THEN strip_leading_slashes(drop_front(t, 1))
    ELSE t

\* variant: a junction that always gets a slash
append_path_component_always_slash(base, component) ==
    base \o <<47>> \o component

\* the text append_path_component leaves in its first argument
append_path_component(base, component) ==
    IF base = <<>> \/ component = <<>> THEN base \o component
    ELSE LET path_slash == base[Len(base)] = 47
             comp_slash == component[1] = 47
         IN  IF ~path_slash /\ ~comp_slash THEN base \o <<47>> \o component
             ELSE IF path_slash /\ comp_slash THEN pop(base) \o component
             ELSE base \o component

path_apply_working_directory(p, working_directory) ==
    IF p = <<>> \/ working_directory = <<>> THEN p
    ELSE IF ~(p[1] # 47 /\ p[1] # HOME_DIRECTORY) THEN p
    ELSE LET without_dot == IF starts_with(p, <<46, 47>>) THEN drop_front(p, 2)
                            ELSE p
             path_component == strip_leading_slashes(without_dot)
         IN  append_path_component(working_directory, path_component)

--------------------------------------------------------------------------
(* SpecPath: one path function called on its arguments;                    *)
(* path_make_canonical up to MaxCalls times over on the text it changes.   *)

\* the characters of the paths: the slash, a letter and the dot
PathChars == {47, 97, 46}

Paths == UNION {[1..n -> PathChars] : n \in 0..MaxPath}

\* the paths of a pair
PairPaths == UNION {[1..n -> PathChars] : n \in 0..MaxPair}

\* the paths a working directory is applied to, and the working directories
RelativePaths ==
    UNION {[1..n -> PathChars \cup {HOME_DIRECTORY}] : n \in 0..MaxPair}
WorkingDirectories == UNION {[1..n -> {47, 97}] : n \in 0..MaxPair}

PathInit ==
    /\ NoRead
    /\ path_fn \in {"path_make_canonical", "paths_are_equivalent",
                    "path_apply_working_directory"}
    /\ IF path_fn = "path_make_canonical"
       THEN path_arg \in Paths /\ path_other = <<>>
       ELSE IF path_fn = "paths_are_equivalent"
       THEN path_arg \in PairPaths /\ path_other \in PairPaths
       ELSE path_arg \in RelativePaths /\ path_other \in WorkingDirectories
    /\ path = path_arg
    /\ path_calls = 0
    /\ path_res = None

\* one call of path_make_canonical(&mut path)
MakeCanonical ==
    /\ path_fn = "path_make_canonical"
    /\ path_calls < MaxCalls
    /\ path' = path_make_canonical(path)
    /\ path_calls' = path_calls + 1
    /\ UNCHANGED <<path_arg, path_fn, path_other, path_res>>
    /\ UNCHANGED read_vars

\* the call paths_are_equivalent(p1, p2)
Equivalent ==
    /\ path_fn = "paths_are_equivalent"
    /\ ~path_res.some
    /\ path_res' = Some(paths_are_equivalent(path_arg, path_other))
    /\ UNCHANGED <<path, path_arg, path_calls, path_fn, path_other>>
    /\ UNCHANGED read_vars

\* the call path_apply_working_directory(path, working_directory)
ApplyWorkingDirectory ==
    /\ path_fn = "path_apply_working_directory"
    /\ ~path_res.some
    /\ path_res' = Some(path_apply_working_directory(path_arg, path_other))
    /\ UNCHANGED <<path, path_arg, path_calls, path_fn, path_other>>
    /\ UNCHANGED read_vars

PathNext == MakeCanonical \/ Equivalent \/ ApplyWorkingDirectory

SpecPath == PathInit /\ [][PathNext]_vars_all

--------------------------------------------------------------------------
(* Properties of the controller (Spec).                                    *)

\* read() has returned
Returned == pc = "done"

\* read() got past validation and the closed-descriptor check
EnteredLoop == nacq >= 1

Assigned(i) == vars[i].set
Empty == [set |-> TRUE, val |-> <<>>]
One(text) == [set |-> TRUE, val |-> <<text>>]

\* the offsets of the newlines of the descriptor's content, and the k-th
NewlineOffsets == {i \in 1..Len(file) : file[i] = 10}
NthNewline(k) ==
    CHOOSE i \in NewlineOffsets : Cardinality({j \in NewlineOffsets : j < i}) = k - 1

\* the k-th newline-terminated record of the descriptor's content
Record(k) ==
    str2wcstring(SubSeq(file, IF k = 1 THEN 1 ELSE NthNewline(k - 1) + 1,
                        NthNewline(k) - 1))

\* the content is m newline-terminated records and nothing after them
OnlyRecords == file = <<>> \/ file[Len(file)] = 10

\* C1 (as claimed): in non-array mode, whenever read returns anything but
\* invalid-arguments, the closed descriptor included, every destination
\* variable has been assigned in that call.
C1_EverySlotAssigned ==
    (Returned /\ ~opts.array /\ exit_res # STATUS_INVALID_ARGS)
        => \A i \in 1..argc : Assigned(i)

\* C2: --line with n variables on a descriptor that is no terminal and
\* holds m < n newline-terminated records and nothing else (no character
\* limit, the byte limit not reached): variables 1..m hold the records in
\* order, variables m+1..n are empty, the result is STATUS_CMD_ERROR.
C2_FewerRecordsThanSlots ==
    (Returned /\ EnteredLoop /\ opts.one_line /\ ~fd.tty /\ opts.nchars = 0
       /\ limit >= Len(file) /\ OnlyRecords
       /\ Cardinality(NewlineOffsets) < argc)
        => /\ exit_res = STATUS_CMD_ERROR
           /\ \A i \in 1..argc :
                vars[i] = IF i <= Cardinality(NewlineOffsets)
                          THEN One(Record(i)) ELSE Empty

C2_Witness ==
    /\ Returned /\ EnteredLoop /\ opts.one_line /\ ~fd.tty /\ opts.nchars = 0
    /\ limit >= Len(file) /\ OnlyRecords
    /\ argc = 3 /\ Cardinality(NewlineOffsets) = 2
    /\ vars[1] = One(<<97>>) /\ vars[3] = Empty
    /\ exit_res = STATUS_CMD_ERROR

InStrategy == pc \in {"read_interactive", "read_in_chunks", "read_one_char"}

\* C3: without --line the controller makes exactly one acquisition; with
\* --line an acquisition only ever runs while a variable is unfilled; so
\* an invocation makes at most as many acquisitions as it has variables
\* (at most one when it has none).
C3_AcquisitionsBounded ==
    /\ (Returned /\ EnteredLoop /\ ~opts.one_line) => nacq = 1
    /\ ~opts.one_line => nacq <= 1
    /\ (InStrategy /\ opts.one_line /\ argc > 0) => var_ptr < argc
    /\ nacq <= Max(argc, 1)

C3_Witness ==
    Returned /\ opts.one_line /\ argc = 3 /\ nacq = 3 /\ exit_res = SUCCESS

--------------------------------------------------------------------------
(* Properties of the strategies (SpecAcq).                                 *)

Acquired == pc = "acquired"
Chunked == strategy = "chunks"
ByChar == strategy = "chars"
TheDelim == Delim(opts.split_null)

\* the current acquisition has a delimiter ahead of where it started
DelimAhead == \E i \in (start + 1)..Len(file) : file[i] = TheDelim

\* offset of the first delimiter at or after the acquisition's start
FirstDelim ==
    CHOOSE i \in (start + 1)..Len(file) :
        file[i] = TheDelim /\ \A j \in (start + 1)..(i - 1) : file[j] # TheDelim

\* the record the acquisition started at, decoded
FirstRecord == str2wcstring(SubSeq(file, start + 1, FirstDelim - 1))

\* C4: the chunked strategy with rollback (the lseek succeeding), having
\* found the delimiter: the descriptor is one byte past that delimiter,
\* which is the first one after the start, and the unit is the bytes in
\* between; so the next acquisition starts at the next record.
C4_RollbackPastDelimiter ==
    (Acquired /\ Chunked /\ ~fd.direct /\ ck.found /\ ~ck.early)
        => /\ DelimAhead
           /\ pos = FirstDelim
           /\ pos = start + Len(ck.narrow_buff) + 1
           /\ buff = FirstRecord
           /\ exit_res = SUCCESS

C4_Witness ==
    /\ Acquired /\ Chunked /\ ~fd.direct /\ ck.found /\ ~ck.early
    /\ ck.reads >= 2 /\ Len(file) > READ_CHUNK_SIZE
    /\ pos < Len(file) /\ pos = FirstDelim

\* what the other two strategies return for the acquisition just made by
\* the chunked one: the byte-at-a-time strategy from the same offset, the
\* interactive one when the editor hands back the same record
SameByChar ==
    read_one_char_at_a_time(file, start, 0, opts.split_null, limit)
SameInteractive == read_interactive(<<>>, 0, Some(FirstRecord))

\* C5 (as claimed): for every delimiter-terminated content and every byte
\* limit the strategies return the same status and the same unit.
C5_SameForEveryCeiling ==
    (Acquired /\ Chunked /\ DelimAhead /\ ~ck.early /\ Len(file) < READ_CHUNK_SIZE)
        => /\ SameByChar.res = exit_res /\ SameByChar.buff = buff
           /\ SameInteractive.res = exit_res /\ SameInteractive.buff = buff

\* the bytes are well-formed UTF-8: none is passed through undecoded
WellFormed(bs) ==
    \A i \in 1..Len(str2wcstring(bs)) :
        \/ str2wcstring(bs)[i] < ENCODE_DIRECT_BASE
        \/ str2wcstring(bs)[i] > ENCODE_DIRECT_BASE + 255

\* C5 (amended): when the byte limit is at least the number of bytes up to
\* and including the delimiter and those bytes are well-formed UTF-8 (and
\* the lseek, if any, succeeds), the chunked and the byte-at-a-time
\* strategy, and the interactive one given the same line, all return
\* SUCCESS with the same unit.
C5_SameWithinCeiling ==
    (Acquired /\ Chunked /\ DelimAhead /\ ~ck.early /\ Len(file) < READ_CHUNK_SIZE
       /\ limit >= FirstDelim - start
       /\ WellFormed(SubSeq(file, start + 1, FirstDelim - 1)))
        => /\ exit_res = SUCCESS /\ buff = FirstRecord
           /\ SameByChar.res = exit_res /\ SameByChar.buff = buff
           /\ SameInteractive.res = exit_res /\ SameInteractive.buff = buff

C5_Witness ==
    /\ Acquired /\ Chunked /\ DelimAhead /\ ~ck.early
    /\ Len(file) < READ_CHUNK_SIZE /\ limit >= FirstDelim - start
    /\ ck.reads >= 2 /\ buff = <<97, 8364>>
    /\ SameByChar.buff = <<97, 8364>>

\* C6 (as claimed): the chunked strategy compares the accumulated length
\* with a (positive) byte limit after every chunk, so whenever the
\* accumulated length exceeds it the result is STATUS_READ_TOO_MUCH, never
\* SUCCESS.
C6_ChunkedNeverOverCeiling ==
    (Acquired /\ Chunked /\ ~ck.early /\ limit >= 1
       /\ Len(ck.narrow_buff) > limit)
        => exit_res = STATUS_READ_TOO_MUCH

\* C7 (as claimed): the byte-at-a-time strategy checks the byte limit after
\* every byte, so it never has consumed more than limit + 1 bytes.
C7_AtMostOneByteOver ==
    (ByChar /\ limit >= 1) => oc.nbytes <= limit + 1

\* C8 (as claimed): with a byte limit of 0 neither strategy reports
\* STATUS_READ_TOO_MUCH.
C8_ZeroDisables ==
    (Acquired /\ limit = 0) => exit_res # STATUS_READ_TOO_MUCH

\* the characters the decoder completes when fed the bytes bs from index i
\* on, one at a time; a sequence still pending at the end yields none
RECURSIVE Fed(_, _, _, _)
Fed(bs, i, pending, acc) ==
    IF i > Len(bs) THEN acc
    ELSE LET d == decode_input_byte(acc, Append(pending, bs[i]))
         IN  IF d.state = "Incomplete"
             THEN Fed(bs, i + 1, Append(pending, bs[i]), acc)
             ELSE Fed(bs, i + 1, <<>>, d.out_seq)

\* the bytes of the acquisition that lie within the byte limit
WithinCeiling == SubSeq(file, start + 1, Min(start + limit, Len(file)))

\* C9: the byte-at-a-time strategy, once its byte count exceeds the limit,
\* returns STATUS_READ_TOO_MUCH and as unit exactly the characters decoded
\* from the bytes within the limit: the character that crossed it is not
\* in the unit.
C9_TruncatedToCeiling ==
    /\ (Acquired /\ ByChar /\ oc.nbytes > limit)
          => exit_res = STATUS_READ_TOO_MUCH
    /\ (Acquired /\ ByChar /\ exit_res = STATUS_READ_TOO_MUCH)
          => /\ oc.nbytes > limit
             /\ buff = Fed(WithinCeiling, 1, <<>>, <<>>)

C9_Witness ==
    /\ Acquired /\ ByChar /\ exit_res = STATUS_READ_TOO_MUCH
    /\ limit = 2 /\ oc.nbytes = 4 /\ buff = <<97>>

\* C10: when the chunked strategy stops on the byte limit it returns
\* STATUS_READ_TOO_MUCH, never another status, and the unit is every byte
\* read since the start, the chunk that crossed the limit included.
C10_ChunkedKeepsEverything ==
    (Acquired /\ Chunked /\ ck.exit_res = STATUS_READ_TOO_MUCH)
        => /\ exit_res = STATUS_READ_TOO_MUCH
           /\ buff = str2wcstring(SubSeq(file, start + 1, pos))
           /\ pos - start > limit

C10_Witness ==
    /\ Acquired /\ Chunked /\ exit_res = STATUS_READ_TOO_MUCH
    /\ ck.reads = 1 /\ limit = 3 /\ pos - start = READ_CHUNK_SIZE
    /\ Len(buff) = READ_CHUNK_SIZE

\* the acquisition ended because a read returned no byte
AtEof == (Chunked /\ ck.eof) \/ (ByChar /\ oc.done /\ oc.state = "None")

\* every byte of the descriptor from the acquisition's start on
ToEnd == SubSeq(file, start + 1, Len(file))

\* the raw bytes a unit stands for: a passed-through byte for a character
\* of the direct range, the UTF-8 sequence for any other
RECURSIVE RawBytes(_)
RawBytes(unit) ==
    IF unit = <<>> THEN <<>>
    ELSE (IF Head(unit) >= ENCODE_DIRECT_BASE /\ Head(unit) <= ENCODE_DIRECT_BASE + 255
          THEN <<Head(unit) - ENCODE_DIRECT_BASE>>
          ELSE Utf8(Head(unit))) \o RawBytes(Tail(unit))

\* the unit is everything read up to the end of input
EverythingRead ==
    IF Chunked THEN buff = str2wcstring(ToEnd) ELSE RawBytes(buff) = ToEnd

\* C11 (as claimed): chunked and byte-at-a-time strategy, end of input
\* reached before a delimiter and the byte limit not exceeded: the result
\* is STATUS_CMD_ERROR exactly when the unit is empty, and a non-empty unit
\* comes with SUCCESS and is everything read.
C11_EndOfInput ==
    (Acquired /\ AtEof /\ exit_res # STATUS_READ_TOO_MUCH)
        => /\ exit_res = STATUS_CMD_ERROR <=> buff = <<>>
           /\ buff # <<>> => exit_res = SUCCESS /\ EverythingRead

\* the unit holds no delimiter character
NoDelimiterStored == \A i \in 1..Len(buff) : buff[i] # TheDelim

\* the acquisition started at a delimiter byte
DelimiterFirst == start < Len(file) /\ file[start + 1] = TheDelim

\* C12 (as claimed): the delimiter is consumed and never stored: a unit the
\* chunked or the byte-at-a-time strategy returns with SUCCESS holds no
\* delimiter character, and an acquisition that starts at a delimiter byte
\* returns SUCCESS with the empty unit (the lseek, if any, succeeding).
C12_DelimiterNotStored ==
    (Acquired /\ ~ck.early)
        => /\ exit_res = SUCCESS => NoDelimiterStored
           /\ DelimiterFirst => exit_res = SUCCESS /\ buff = <<>>

\* C13 (as claimed): with a character limit N > 0 every unit returned with
\* SUCCESS has at most N characters, and the chunked strategy is not the
\* one that ran.
C13_AtMostNChars ==
    (Acquired /\ exit_res = SUCCESS /\ opts.nchars > 0)
        => Len(buff) <= opts.nchars /\ ~Chunked

\* a strategy has been selected in this invocation
Selected == nacq >= 1

\* the strategy that ran is the one selected, and no other has
OneStrategyRuns ==
    /\ pc = "read_interactive" => strategy = "interactive"
    /\ (pc = "read_in_chunks" \/ ck.reads > 0) => strategy = "chunks"
    /\ (pc = "read_one_char" \/ oc.nbytes > 0) => strategy = "chars"

\* C14 (as claimed): interactive iff the descriptor is a terminal and
\* null-split is off; otherwise chunked iff the descriptor is seekable or
\* exclusively owned, no character limit is set and per-record mode is off;
\* otherwise byte-at-a-time.  One strategy per acquisition.
C14_SelectionAsClaimed ==
    Selected
        => /\ strategy =
                IF fd.tty /\ ~opts.split_null THEN "interactive"
                ELSE IF (fd.seekable \/ fd.direct) /\ opts.nchars = 0
                        /\ ~opts.one_line
                THEN "chunks"
                ELSE "chars"
           /\ OneStrategyRuns

\* C14 (amended): as claimed, except that the chunked strategy also needs
\* the descriptor not to be a terminal.
C14_Selection ==
    Selected
        => /\ strategy =
                IF fd.tty /\ ~opts.split_null THEN "interactive"
                ELSE IF ~fd.tty /\ (fd.seekable \/ fd.direct) /\ opts.nchars = 0
                        /\ ~opts.one_line
                THEN "chunks"
                ELSE "chars"
           /\ OneStrategyRuns

C14_Witness ==
    /\ pc = "acquired" /\ fd.tty /\ fd.direct /\ opts.split_null
    /\ opts.nchars = 0 /\ ~opts.one_line
    /\ strategy = "chars" /\ oc.nbytes > 0 /\ ck.reads = 0

\* C15: interactive strategy.  It never reports STATUS_READ_TOO_MUCH; when
\* the editor returns no line its result is STATUS_CMD_ERROR, and read then
\* returns that result having assigned no value from this acquisition: the
\* variables assigned before keep their values and every unfilled one is
\* set to empty.
C15_NoLine ==
    /\ [](strategy = "interactive" => exit_res # STATUS_READ_TOO_MUCH)
    /\ [][(pc = "read_interactive" /\ exit_res' # SUCCESS)
            => exit_res' = STATUS_CMD_ERROR /\ vars' = vars]_vars_all
    /\ [][(pc = "acquired" /\ strategy = "interactive" /\ exit_res # SUCCESS)
            => /\ pc' = "done" /\ exit_res' = STATUS_CMD_ERROR
               /\ \A i \in 1..argc :
                    vars'[i] = IF i <= var_ptr THEN vars[i] ELSE Empty]_vars_all

C15_Witness ==
    /\ Returned /\ strategy = "interactive" /\ exit_res = STATUS_CMD_ERROR
    /\ argc = 3 /\ nacq = 2 /\ limit = 2
    /\ vars[1] = One(<<97, 44, 97>>) /\ vars[2] = Empty /\ vars[3] = Empty

\* where the sequence the partial buffer belongs to starts, and the length
\* its first byte announces
SeqStart == pos - Len(oc.unconsumed)
SeqLen == Utf8Len(file[SeqStart + 1])

\* the next read feeds a byte of a valid multi-byte character, of which the
\* partial buffer holds exactly the bytes before it
FeedingValid ==
    /\ pc = "read_one_char" /\ pos < Len(file)
    /\ SeqLen >= 2 /\ SeqStart + SeqLen <= Len(file)
    /\ \A i \in 2..SeqLen : IsCont(file[SeqStart + i])
    /\ Len(oc.unconsumed) < SeqLen
    /\ oc.unconsumed = SubSeq(file, SeqStart + 1, pos)

\* C16: a valid k-byte character (k >= 2) read one byte at a time: each of
\* the first k-1 bytes gives Incomplete, adds nothing to the unit and is
\* kept in the partial buffer; the k-th gives Complete, empties the partial
\* buffer and adds exactly one character (which the byte limit, if the byte
\* exceeds it, takes off again).
C16_OneCharacterPerSequence ==
    [][FeedingValid
         => IF Len(oc.unconsumed) + 1 < SeqLen
            THEN /\ oc'.state = "Incomplete"
                 /\ oc'.buff = oc.buff /\ buff' = buff
                 /\ oc'.unconsumed = Append(oc.unconsumed, file[pos + 1])
            ELSE /\ oc'.state = "Complete"
                 /\ oc'.unconsumed = <<>>
                 /\ oc'.exit_res # STATUS_READ_TOO_MUCH
                      => oc'.buff = Append(oc.buff,
                             CodePoint(SubSeq(file, SeqStart + 1,
                                              SeqStart + SeqLen)))]_vars_all

C16_Witness ==
    /\ ByChar /\ oc.state = "Complete" /\ oc.unconsumed = <<>>
    /\ oc.nbytes = 4 /\ SubSeq(file, 1, 4) = <<97, 226, 130, 172>>
    /\ oc.buff = <<97, 8364>> /\ exit_res = SUCCESS

\* the bytes the acquisition consumed
Consumed == SubSeq(file, start + 1, pos)

\* C17 (as claimed): the byte-at-a-time strategy drops no byte: on SUCCESS
\* the unit stands for every byte consumed, the terminating delimiter
\* excepted, a sequence pending at end of input included.
C17_NoByteDropped ==
    (Acquired /\ ByChar /\ exit_res = SUCCESS)
        => \/ RawBytes(buff) = Consumed
           \/ /\ pos > start /\ file[pos] = TheDelim
              /\ RawBytes(buff) = SubSeq(file, start + 1, pos - 1)

--------------------------------------------------------------------------
(* Properties of the splitting (Spec).                                     *)

\* read took the per-character branch, not in array mode
PerCharacter ==
    /\ ~opts.tokenize /\ ~opts.array /\ ~opts.to_stdout /\ argc >= 1
    /\ IF opts.delimiter.some THEN opts.delimiter.val = <<>> ELSE ifs = <<>>

\* the values of the variables from i on, joined
RECURSIVE Joined(_)
Joined(i) ==
    IF i > argc THEN <<>>
    ELSE (IF vars[i].val = <<>> THEN <<>> ELSE vars[i].val[1]) \o Joined(i + 1)

\* C18: per-character splitting, not array mode, n variables, a unit of L
\* characters: with L <= n variable i holds character i for i <= L and the
\* others are empty; with L > n variables 1..n-1 hold one character each
\* and variable n the rest of the unit.  The values joined are the unit.
C18_PerCharacter ==
    (Returned /\ exit_res = SUCCESS /\ PerCharacter)
        => /\ \A i \in 1..argc :
                vars[i] = IF i > Len(buff) THEN Empty
                          ELSE IF i < argc THEN One(<<buff[i]>>)
                          ELSE One(SubSeq(buff, i, Len(buff)))
           /\ Joined(1) = buff

C18_Witness ==
    /\ Returned /\ exit_res = SUCCESS /\ PerCharacter
    /\ ~opts.delimiter.some /\ argc = 2 /\ buff = <<97, 44, 97>>
    /\ vars[1] = One(<<97>>) /\ vars[2] = One(<<44, 97>>)

\* read took the branch of the user's non-empty delimiter, not in array
\* mode and not by --line
UserDelimiter ==
    /\ ~opts.tokenize /\ ~opts.array /\ ~opts.to_stdout /\ ~opts.one_line
    /\ argc >= 1 /\ opts.delimiter.some /\ opts.delimiter.val # <<>>

\* the text holds no occurrence of the delimiter
NoOccurrence(t) ==
    \A j \in 1..(Len(t) - Len(opts.delimiter.val) + 1) :
        SubSeq(t, j, j + Len(opts.delimiter.val) - 1) # opts.delimiter.val

\* how many variables hold a piece (a variable set to empty holds none)
PiecesHeld == Cardinality({i \in 1..argc : vars[i].val # <<>>})

\* the pieces of variables i..PiecesHeld with the delimiter between them
RECURSIVE Rejoined(_)
Rejoined(i) ==
    IF i > PiecesHeld THEN <<>>
    ELSE IF i = PiecesHeld THEN vars[i].val[1]
    ELSE vars[i].val[1] \o opts.delimiter.val \o Rejoined(i + 1)

\* C19: the user's non-empty delimiter, not array mode, n variables: the
\* unit is split at its first n-1 delimiters only.  Variable i < n holds
\* the i-th piece, variable n everything after the (n-1)-th delimiter with
\* the further delimiters in it, and with fewer than n pieces the other
\* variables are empty.
C19_SplitAtFirstDelimiters ==
    (Returned /\ exit_res = SUCCESS /\ UserDelimiter)
        => /\ PiecesHeld >= 1
           /\ \A i \in 1..argc :
                IF i <= PiecesHeld
                THEN vars[i].set /\ Len(vars[i].val) = 1
                ELSE vars[i] = Empty
           /\ Rejoined(1) = buff
           /\ \A i \in 1..(PiecesHeld - 1) : NoOccurrence(vars[i].val[1])
           /\ PiecesHeld < argc => NoOccurrence(vars[PiecesHeld].val[1])

C19_Witness ==
    /\ Returned /\ exit_res = SUCCESS /\ UserDelimiter
    /\ argc = 2 /\ buff = <<44, 97, 44>>
    /\ vars[1] = One(<<>>) /\ vars[2] = One(<<97, 44>>)

\* C20 (as claimed): splitting at the delimiter never yields more pieces
\* than there are unfilled variables: `assert!(splits.len() <=
\* vars_left(var_ptr))` holds in every pass of --line and for every text a
\* strategy returns, the editor's line included.
C20_AssertionHolds == pc # "panic"

\* read took the IFS branch: no delimiter given, IFS not empty, not array
IFSSplit ==
    /\ ~opts.tokenize /\ ~opts.array /\ ~opts.to_stdout /\ ~opts.one_line
    /\ argc >= 1 /\ ~opts.delimiter.some /\ ifs # <<>>

\* the maximal runs of characters of the unit that are no IFS character:
\* where they begin, the k-th beginning, and where a run begun at j ends
RunStarts ==
    {j \in 1..Len(buff) :
        ~IsSep(ifs, buff[j]) /\ (j = 1 \/ IsSep(ifs, buff[j - 1]))}
NthRunStart(k) ==
    CHOOSE j \in RunStarts : Cardinality({h \in RunStarts : h < j}) = k - 1
RunEnd(j) ==
    SetMin({h \in j..Len(buff) : h = Len(buff) \/ IsSep(ifs, buff[h + 1])})
NthRun(k) == SubSeq(buff, NthRunStart(k), RunEnd(NthRunStart(k)))

\* where the text left for the last of n variables begins: at the start of
\* the unit for n = 1, else one past the separator that ends run n-1
RemainderStart ==
    IF argc = 1 THEN 1
    ELSE IF Cardinality(RunStarts) >= argc - 1
    THEN RunEnd(NthRunStart(argc - 1)) + 2
    ELSE Len(buff) + 1

\* C21: IFS splitting, not array mode, n variables: every IFS character
\* is a separator of its own; variable i < n holds the i-th run of other
\* characters, variable n the unsplit rest of the unit, a variable with
\* nothing left for it is assigned the empty text, and each of the n
\* variables is assigned exactly once, in order, by set_var_and_fire.
C21_IFSSplitting ==
    (Returned /\ exit_res = SUCCESS /\ IFSSplit)
        => /\ \A i \in 1..(argc - 1) :
                vars[i] = IF i <= Cardinality(RunStarts) THEN One(NthRun(i))
                          ELSE One(<<>>)
           /\ vars[argc] = IF RemainderStart <= Len(buff)
                           THEN One(SubSeq(buff, RemainderStart, Len(buff)))
                           ELSE One(<<>>)
           /\ writes = [i \in 1..argc |-> fire(i)]

C21_Witness ==
    /\ Returned /\ exit_res = SUCCESS /\ IFSSplit
    /\ argc = 2 /\ ifs = <<32, 44>> /\ buff = <<97, 44, 32>>
    /\ vars[1] = One(<<97>>) /\ vars[2] = One(<<32>>)
    /\ writes = <<fire(1), fire(2)>>

--------------------------------------------------------------------------
(* Properties of the splitting on richer records (SpecSplit).              *)

\* the delimiter in force: the user's, else the value of IFS
InForce == IF opts.delimiter.some THEN opts.delimiter.val ELSE ifs

\* character j of the unit is taken by a backslash before it: the run of
\* backslashes ending at j-1 has odd length
Escaped(j) ==
    LET run == {k \in 0..(j - 1) :
                   \A h \in (j - k)..(j - 1) : buff[h] = 92}
    IN  (CHOOSE k \in run : \A h \in run : h <= k) % 2 = 1

\* where the shell words of the unit begin, and the k-th beginning
TokenStarts ==
    {j \in 1..Len(buff) :
        /\ ~IsBlank(buff[j]) /\ ~Escaped(j)
        /\ j = 1 \/ (IsBlank(buff[j - 1]) /\ ~Escaped(j - 1))}
NthTokenStart(k) ==
    CHOOSE j \in TokenStarts : Cardinality({h \in TokenStarts : h < j}) = k - 1

\* the k-th shell word as read() assigns it: unescaped, or as it stands
\* when it cannot be unescaped
Word(k) ==
    LET text == text_of(buff, Tokenizer(buff)[k])
    IN  IF unescape_string(text).some THEN unescape_string(text).val ELSE text

\* texts joined with d between them
RECURSIVE Join(_, _)
Join(ps, d) ==
    IF ps = <<>> THEN <<>>
    ELSE IF Len(ps) = 1 THEN ps[1]
    ELSE ps[1] \o d \o Join(Tail(ps), d)

\* the text holds no occurrence of d
Free(t, d) == \A j \in 1..Len(t) : ~occurs_at(t, d, j)

\* the fields of the policy in force, all of them: shell words, single
\* characters, runs of non-IFS characters, or the pieces between delimiters
AllFields(val) ==
    IF opts.tokenize
    THEN /\ Len(val) = Cardinality(TokenStarts)
         /\ \A k \in 1..Len(val) :
              /\ val[k] = Word(k)
              /\ Tokenizer(buff)[k][1] = NthTokenStart(k)
    ELSE IF InForce = <<>>
    THEN val = [i \in 1..Len(buff) |-> <<buff[i]>>]
    ELSE IF ~opts.delimiter.some
    THEN val = [k \in 1..Cardinality(RunStarts) |-> NthRun(k)]
    ELSE /\ Len(val) >= 1
         /\ Join(val, InForce) = buff
         /\ \A k \in 1..Len(val) : Free(val[k], InForce)

\* C22: array mode: on SUCCESS the invocation makes exactly one assignment,
\* to its only variable, and the value is every field of the policy in
\* force, in order, with no cap on their number and no remainder kept whole.
C22_ArrayOneAssignment ==
    (Returned /\ exit_res = SUCCESS /\ opts.array)
        => /\ argc = 1
           /\ writes = <<fire(1)>>
           /\ vars[1].set
           /\ AllFields(vars[1].val)

C22_Witness ==
    /\ Returned /\ exit_res = SUCCESS /\ opts.array
    /\ opts.delimiter = Some(<<44>>) /\ buff = <<44, 97, 44, 44>>
    /\ writes = <<fire(1)>>
    /\ vars[1].val = << <<>>, <<97>>, <<>>, <<>> >>

\* read took the shell-word branch, not in array mode
ShellWords == opts.tokenize /\ ~opts.array /\ ~opts.to_stdout /\ argc >= 1

\* C23: shell-word tokenization, not array mode, n variables, a unit of m
\* words: with m < n variables 1..m hold the unescaped words and the
\* others are set to empty; with m >= n variables 1..n-1 hold the first
\* n-1 unescaped words and variable n the raw text of the unit from where
\* the n-th word begins to the end.
C23_ShellWords ==
    (Returned /\ exit_res = SUCCESS /\ ShellWords)
        => \A i \in 1..argc :
             vars[i] = IF i < argc /\ i <= Cardinality(TokenStarts)
                       THEN One(Word(i))
                       ELSE IF i = argc /\ Cardinality(TokenStarts) >= argc
                       THEN One(SubSeq(buff, NthTokenStart(argc), Len(buff)))
                       ELSE Empty

C23_Witness ==
    /\ Returned /\ exit_res = SUCCESS /\ ShellWords
    /\ argc = 2 /\ buff = <<97, 32, 92, 44>>
    /\ vars[1] = One(<<97>>) /\ vars[2] = One(<<92, 44>>)

--------------------------------------------------------------------------
(* Properties of the assignments (Spec).                                   *)

\* the k-th assignment of the invocation is to slot k, and the slots
\* written are the slots that are set
InSlotOrder ==
    /\ Len(writes) <= argc
    /\ \A k \in 1..Len(writes) : writes[k].slot = k
    /\ \A i \in 1..argc : vars[i].set <=> i <= Len(writes)

\* C24: the assignments of one invocation go strictly left to right: the
\* slots written, with a value or with empty, are slot 1, slot 2, ... in
\* that order; a step only appends to what was written, and a slot once
\* written is not written again.
C24_LeftToRight ==
    /\ []InSlotOrder
    /\ [][/\ Len(writes') >= Len(writes)
          /\ SubSeq(writes', 1, Len(writes)) = writes
          /\ \A i \in 1..Len(writes) : vars'[i] = vars[i]]_vars_all

C24_Witness ==
    /\ Returned /\ opts.one_line /\ argc = 3 /\ nacq = 3
    /\ writes = <<fire(1), fire(2), quiet(3)>>
    /\ vars[2] = One(<<>>) /\ vars[3] = Empty

\* C25 (as claimed): every assignment read makes to a destination variable
\* fires the variable-changed event, the assignment of empty to an
\* unfilled variable as much as the assignment of a field.
C25_EveryAssignmentNotifies ==
    \A k \in 1..Len(writes) : notifies(writes[k])

--------------------------------------------------------------------------
(* Properties of failing reads (SpecErr).                                  *)

\* the acquisition ended on a read that failed with an I/O error
FailedRead == fd.fail.some /\ pos >= fd.fail.val /\ AtEof

\* C26 (as claimed): a read that fails with an I/O error other than EINTR,
\* in the chunked or the byte-at-a-time strategy, ends the acquisition
\* with STATUS_CMD_ERROR whatever had been accumulated before it.
C26_ReadErrorIsFailure ==
    (Acquired /\ FailedRead) => exit_res = STATUS_CMD_ERROR

--------------------------------------------------------------------------
(* Properties of the failed seek (Spec).                                   *)

\* the lseek of read_in_chunks returned -1
SeekFailed == Chunked /\ ck.early

\* C27: when the backward seek of the chunked strategy fails, the
\* acquisition returns at once with STATUS_CMD_ERROR: no further read is
\* issued, the descriptor stays where the chunk left it, nothing of the
\* bytes read reaches a variable or the output, and read returns with every
\* variable set to empty.
C27_SeekFailureAborts ==
    /\ [](SeekFailed =>
            /\ pc \in {"acquired", "done"}
            /\ exit_res = STATUS_CMD_ERROR
            /\ buff = <<>> /\ out = <<>>
            /\ ck.seeks = 1
            /\ \A i \in 1..argc : vars[i].val = <<>>
            /\ Returned =>
                 /\ \A i \in 1..argc : vars[i] = Empty
                 /\ writes = clear_remaining_log(argc, 0))
    /\ [][SeekFailed => /\ SeekFailed'
                         /\ ck'.reads = ck.reads
                         /\ pos' = pos
                         /\ nacq' = nacq]_vars_all

C27_Witness ==
    /\ Returned /\ SeekFailed /\ argc = 2
    /\ ck.reads = 1 /\ ck.narrow_buff = <<97, 44>> /\ pos = Len(file)
    /\ vars = <<Empty, Empty>> /\ exit_res = STATUS_CMD_ERROR

--------------------------------------------------------------------------
(* Properties of the validation (Spec).                                    *)

\* the options as given combine two of --delimiter, --line and --tokenize,
\* or --line with -z, or --array with a number of variables other than 1
Combined ==
    \/ opts.delimiter.some /\ opts.one_line
    \/ opts.delimiter.some /\ opts.tokenize
    \/ opts.one_line /\ opts.tokenize
    \/ opts.one_line /\ opts.split_null
    \/ opts.array /\ argc # 1

\* nothing was read from the descriptor and no variable was assigned
NothingDone ==
    /\ nacq = 0 /\ pos = 0 /\ ck.reads = 0 /\ oc.nbytes = 0
    /\ writes = <<>> /\ out = <<>>
    /\ \A i \in 1..argc : vars[i] = Untouched

\* how many of the three splitting options are in force; under --line the
\* delimiter is the newline read() installs, not one the user gave
OptionsInForce ==
    Cardinality({x \in {"delimiter", "one_line", "tokenize"} :
        \/ x = "delimiter" /\ opts.delimiter.some /\ ~opts.one_line
        \/ x = "one_line" /\ opts.one_line
        \/ x = "tokenize" /\ opts.tokenize})

\* C28 (as claimed): an invocation that combines two of --delimiter,
\* --line and --tokenize, or --line with -z, or --array with other than one
\* variable, returns STATUS_INVALID_ARGS before a byte is read and before a
\* variable is assigned; so whenever an acquisition runs at most one of the
\* three options is in force, and array mode has exactly one variable.
C28_InvalidCombinations ==
    /\ [][(pc = "start" /\ Combined)
             => /\ pc' = "done" /\ exit_res' = STATUS_INVALID_ARGS
                /\ NothingDone']_vars_all
    /\ []((Returned /\ exit_res = STATUS_INVALID_ARGS) => NothingDone)
    /\ [](nacq >= 1 => /\ OptionsInForce <= 1
                       /\ ~(opts.one_line /\ opts.split_null)
                       /\ opts.one_line => opts.delimiter = Some(<<10>>)
                       /\ opts.array => argc = 1)

\* nothing was read from the descriptor and no variable was assigned
NothingRead ==
    /\ nacq = 0 /\ pos = 0 /\ ck.reads = 0 /\ oc.nbytes = 0
    /\ writes = <<>>
    /\ \A i \in 1..argc : vars[i] = Untouched

\* C28: as above for an invocation without --help.  With --help read
\* returns SUCCESS before the options are validated, whatever they
\* combine, and it too reads no byte and assigns no variable.
C28_InvalidWithoutHelp ==
    /\ [][(pc = "start" /\ Combined /\ ~opts.print_help)
             => /\ pc' = "done" /\ exit_res' = STATUS_INVALID_ARGS
                /\ NothingDone']_vars_all
    /\ [][(pc = "start" /\ opts.print_help)
             => /\ pc' = "done" /\ exit_res' = SUCCESS
                /\ NothingRead']_vars_all
    /\ []((Returned /\ exit_res = STATUS_INVALID_ARGS) => NothingDone)
    /\ [](nacq >= 1 => /\ ~opts.print_help
                       /\ OptionsInForce <= 1
                       /\ ~(opts.one_line /\ opts.split_null)
                       /\ opts.one_line => opts.delimiter = Some(<<10>>)
                       /\ opts.array => argc = 1)

C28_Witness ==
    /\ Returned /\ exit_res = STATUS_INVALID_ARGS /\ ~opts.print_help
    /\ opts.tokenize /\ opts.delimiter = Some(<<44>>) /\ ~opts.one_line
    /\ ~opts.array /\ argc = 2 /\ NothingDone

--------------------------------------------------------------------------
(* The round trip of the delimiter splitter (SpecSplit).                   *)

\* read split the unit at a non-empty delimiter the user gave
DelimiterSplit ==
    /\ ~opts.tokenize /\ ~opts.to_stdout /\ ~opts.one_line /\ argc >= 1
    /\ opts.delimiter.some /\ opts.delimiter.val # <<>>

\* the fields the split produced: the elements of the array, or the texts
\* of the variables that were given a piece
Pieces ==
    IF opts.array THEN vars[1].val
    ELSE [i \in 1..PiecesHeld |-> vars[i].val[1]]

\* the same split made of the text t
SplitAgain(t) ==
    IF opts.array THEN split_about(t, opts.delimiter.val, NoMax)
    ELSE delimiter_splits(t, opts.delimiter.val, argc)

\* C29: round trip of the splitter: for a non-empty delimiter d the user
\* gave and a unit s, the fields joined with d are s again, and splitting
\* the joined text with the same delimiter and the same number of
\* variables gives the same fields.
C29_RoundTrip ==
    (Returned /\ exit_res = SUCCESS /\ DelimiterSplit)
        => /\ Join(Pieces, opts.delimiter.val) = buff
           /\ SplitAgain(Join(Pieces, opts.delimiter.val)) = Pieces
           /\ ~opts.array =>
                \A i \in 1..argc : vars[i].set /\ (i > PiecesHeld => vars[i] = Empty)

C29_Witness ==
    /\ Returned /\ exit_res = SUCCESS /\ DelimiterSplit /\ ~opts.array
    /\ opts.delimiter = Some(<<44, 44>>) /\ argc = 2
    /\ buff = <<44, 44, 44, 97>>
    /\ Pieces = << <<>>, <<44, 97>> >>

--------------------------------------------------------------------------
(* Properties of the path functions (SpecPath).                            *)

\* the text has two slashes side by side
AdjacentSlashes(p) == \E i \in 1..(Len(p) - 1) : p[i] = 47 /\ p[i + 1] = 47

\* the text ends in a slash and is more than the one slash
TrailingSlash(p) == Len(p) > 1 /\ p[Len(p)] = 47

\* C30 (as claimed): after path_make_canonical the path has no two
\* adjacent slashes and ends in a slash only when it is exactly "/"; and a
\* second call leaves what the first call made.
C30_Canonical ==
    path_calls >= 1
        => /\ ~AdjacentSlashes(path)
           /\ ~TrailingSlash(path)
           /\ path = path_make_canonical(path_arg)
           /\ path_make_canonical(path) = path

\* the text with every run of slashes made one slash and without a slash
\* at its end, the lone slash excepted
RECURSIVE Collapsed(_)
Collapsed(p) ==
    IF AdjacentSlashes(p)
    THEN LET i == CHOOSE k \in 1..(Len(p) - 1) : p[k] = 47 /\ p[k + 1] = 47
         IN  Collapsed(SubSeq(p, 1, i) \o SubSeq(p, i + 2, Len(p)))
    ELSE IF TrailingSlash(p) THEN SubSeq(p, 1, Len(p) - 1)
    ELSE p

\* paths_are_equivalent has returned
Compared == path_fn = "paths_are_equivalent" /\ path_res.some

\* C31 (as claimed): paths_are_equivalent(p1, p2) is true exactly when p1
\* and p2 are equal once every run of slashes is one slash and trailing
\* slashes are left out (a leading slash counts); the relation is
\* reflexive, symmetric and transitive.
C31_Equivalent ==
    Compared
        => /\ path_res.val <=> Collapsed(path_arg) = Collapsed(path_other)
           /\ paths_are_equivalent(path_arg, path_arg)
           /\ path_res.val = paths_are_equivalent(path_other, path_arg)
           /\ \A q \in PairPaths :
                (path_res.val /\ paths_are_equivalent(path_other, q))
                    => paths_are_equivalent(path_arg, q)

\* path_apply_working_directory has returned
Applied == path_fn = "path_apply_working_directory" /\ path_res.some

\* the path is returned as it is: it is empty, there is no working
\* directory, or it begins with a slash or the home directory character
KeptAsIs ==
    \/ path_arg = <<>> \/ path_other = <<>>
    \/ path_arg[1] = 47 \/ path_arg[1] = HOME_DIRECTORY

\* the path without one leading "./" and the slashes right after it
AfterDot ==
    IF Len(path_arg) >= 2 /\ path_arg[1] = 46 /\ path_arg[2] = 47
    THEN SubSeq(path_arg, 3, Len(path_arg)) ELSE path_arg
Rest ==
    LET solid == {k \in 1..Len(AfterDot) : AfterDot[k] # 47}
    IN  IF solid = {} THEN <<>>
        ELSE SubSeq(AfterDot, SetMin(solid), Len(AfterDot))

\* the working directory ends in at most one slash; and without it
OneTrailingAtMost ==
    ~(Len(path_other) >= 2 /\ path_other[Len(path_other)] = 47
        /\ path_other[Len(path_other) - 1] = 47)
Base ==
    IF path_other # <<>> /\ path_other[Len(path_other)] = 47
    THEN SubSeq(path_other, 1, Len(path_other) - 1) ELSE path_other

\* C32 (as claimed): the path is returned unchanged when it or the working
\* directory is empty or it begins with '/' or the home directory
\* character; otherwise the result is the working directory joined to the
\* path without one leading "./", with exactly one '/' at the junction when
\* the working directory has at most one trailing slash, the rest of the
\* path, a trailing slash included, kept as it is.
C32_JoinedAsClaimed ==
    Applied
        => IF KeptAsIs THEN path_res.val = path_arg
           ELSE OneTrailingAtMost => path_res.val = Base \o <<47>> \o Rest

\* C32: as above, for a path that has something left after its leading
\* "./" and the slashes that follow it; a path with nothing left ("./",
\* ".//") gives the working directory as it is, no slash added.  A working
\* directory that ends in a slash is never given another one.
C32_Joined ==
    Applied
        => IF KeptAsIs THEN path_res.val = path_arg
           ELSE IF Rest = <<>> THEN path_res.val = path_other
           ELSE /\ OneTrailingAtMost => path_res.val = Base \o <<47>> \o Rest
                /\ path_res.val =
                     (IF path_other[Len(path_other)] = 47 THEN path_other
                      ELSE path_other \o <<47>>) \o Rest

C32_Witness ==
    /\ Applied /\ ~KeptAsIs
    /\ path_arg = <<46, 47, 97>> /\ path_other = <<47, 97>>
    /\ path_res.val = <<47, 97, 47, 97>>

--------------------------------------------------------------------------
(* The variable index, failed acquisitions, and read without variables     *)
(* (Spec).                                                                 *)

\* a pass that will assign: the acquisition succeeded and there are
\* variables to assign to
AboutToAssign == Acquired /\ exit_res = SUCCESS /\ ~opts.to_stdout

\* the pass splits at the delimiter the user gave (read.rs 767-777), the
\* one branch that checks its pieces with an assertion
AssertingBranch ==
    /\ ~opts.tokenize /\ ~opts.array
    /\ opts.delimiter.some /\ opts.delimiter.val # <<>>

\* C33: in every reachable state 0 <= var_ptr <= argc; every assignment
\* goes to one of the variables 1..argc; a pass that assigns starts with a
\* variable unfilled, so `vars_left(var_ptr) - 1` of the tokenizer branch
\* never goes below zero; no pass runs past the last variable: the one
\* pass that can have more pieces than variables is stopped by the
\* assertion before it assigns.
C33_IndexInRange ==
    /\ 0 <= var_ptr /\ var_ptr <= argc
    /\ \A k \in 1..Len(writes) : writes[k].slot \in 1..argc
    /\ AboutToAssign => vars_left(argc, var_ptr) >= 1
    /\ (AboutToAssign /\ ~AssertingBranch)
         => ~fields(opts, argc, var_ptr, buff, ifs).panic
    /\ pc = "panic" => AssertingBranch /\ var_ptr < argc

C33_Witness ==
    /\ Returned /\ opts.tokenize /\ ~opts.array /\ argc = 2
    /\ buff = <<97, 32, 97>>
    /\ var_ptr = 2 /\ writes = <<fire(1), fire(2)>>

\* read has returned because an acquisition did not succeed
FailedAcquisition ==
    /\ Returned /\ EnteredLoop
    /\ exit_res \in {STATUS_CMD_ERROR, STATUS_READ_TOO_MUCH}

\* the assignments of the passes before the failed one
Earlier == {k \in 1..Len(writes) : notifies(writes[k])}

\* C36: when an acquisition does not succeed (STATUS_CMD_ERROR or
\* STATUS_READ_TOO_MUCH), read returns that status; every variable is
\* written exactly once in the whole call, in order: the ones the earlier
\* passes of --line filled keep their value, every other one is set to the
\* empty list by set_empty, in array mode as in any other, whatever text
\* the failed acquisition had gathered; nothing goes to the output.
C36_FailureClears ==
    FailedAcquisition
        => /\ Len(writes) = argc /\ var_ptr = argc
           /\ \A k \in 1..argc :
                /\ writes[k].slot = k
                /\ notifies(writes[k]) <=> k <= Cardinality(Earlier)
           /\ \A i \in 1..argc :
                IF i <= Cardinality(Earlier)
                THEN vars[i].set /\ Len(vars[i].val) = 1
                ELSE vars[i] = Empty
           /\ Cardinality(Earlier) >= nacq - 1
           /\ ~opts.one_line => Earlier = {}
           /\ out = <<>>

C36_Witness ==
    /\ FailedAcquisition /\ opts.array /\ argc = 1
    /\ exit_res = STATUS_READ_TOO_MUCH /\ buff = <<97, 97>>
    /\ vars = <<Empty>> /\ writes = <<quiet(1)>>

\* C38 (as claimed): with no variable named read makes exactly one
\* acquisition, appends the unit to the output as it is, unsplit, when the
\* acquisition succeeds and nothing when it does not, and assigns no
\* variable.
C38_ToStdoutAsClaimed ==
    argc = 0
        => /\ writes = <<>> /\ vars = <<>>
           /\ nacq <= 1
           /\ Returned => nacq = 1
           /\ out = IF Returned /\ exit_res = SUCCESS THEN <<buff>> ELSE <<>>

\* the options as given do not go together; the newline delimiter is the
\* one --line installs (read.rs 565-570), never one the caller gave here
CombinedAsGiven ==
    LET given == opts.delimiter.some /\ opts.delimiter # Some(<<10>>)
    IN  \/ given /\ opts.one_line
        \/ given /\ opts.tokenize
        \/ opts.one_line /\ opts.tokenize
        \/ opts.one_line /\ opts.split_null
        \/ opts.array /\ argc # 1

\* the scope, export or prompt options do not pass validate_read_args
Unsettable ==
    \/ "EXPORT" \in opts.place /\ "UNEXPORT" \in opts.place
    \/ Cardinality(opts.place \cap Scopes) > 1
    \/ opts.prompt = Some(<<"-p">>) /\ opts.prompt_str.some

\* read goes as far as the loop: no --help, arguments that pass
\* validation, an open descriptor
ReachesLoop ==
    ~opts.print_help /\ ~CombinedAsGiven /\ ~Unsettable /\ ~fd.closed

\* C38: with no variable named read assigns no variable and makes at most
\* one acquisition.  It makes exactly one when it is called without
\* --help, with arguments that pass validation and on an open descriptor, and
\* then appends the unit to the output as it is, unsplit, when the
\* acquisition succeeds and nothing when it does not; otherwise it returns
\* before the loop with no acquisition, and without --help with no output.
C38_ToStdout ==
    argc = 0
        => /\ writes = <<>> /\ vars = <<>>
           /\ nacq <= 1
           /\ Returned => (nacq = 1 <=> ReachesLoop)
           /\ (Returned /\ ReachesLoop)
                => out = IF exit_res = SUCCESS THEN <<buff>> ELSE <<>>
           /\ (~opts.print_help /\ ~(Returned /\ ReachesLoop)) => out = <<>>
           /\ (Returned /\ ReachesLoop /\ exit_res = SUCCESS /\ ~fd.tty
                 /\ opts.nchars = 0 /\ DelimAhead)
                => out = <<FirstRecord>>

C38_Witness ==
    /\ argc = 0 /\ ReachesLoop /\ Returned /\ exit_res = SUCCESS /\ nacq = 1
    /\ opts.delimiter = Some(<<44>>)
    /\ out = << <<97, 44, 97>> >>

--------------------------------------------------------------------------
(* The chunked strategy without rollback (SpecAcq).                        *)

\* the chunked strategy on a directly redirected descriptor
Direct == Chunked /\ fd.direct

\* the descriptor offset after the reads made so far by this acquisition,
\* each taking what one read hands over
AfterReads ==
    Min(Len(file), start + ck.reads * Min(READ_CHUNK_SIZE, fd.burst))

\* C37: the chunked strategy on a directly redirected descriptor never
\* issues a seek; having found the delimiter it leaves the descriptor at
\* the end of the last chunk read, at most READ_CHUNK_SIZE - 1 bytes past
\* the delimiter, and those bytes are not part of the unit, which is the
\* bytes before the first delimiter.
C37_NoRollback ==
    /\ Direct => ck.seeks = 0 /\ ~ck.early
    /\ (Acquired /\ Direct /\ ck.found)
         => /\ DelimAhead
            /\ pos = AfterReads
            /\ pos >= FirstDelim
            /\ pos - FirstDelim <= READ_CHUNK_SIZE - 1
            /\ buff = FirstRecord
            /\ start + Len(ck.narrow_buff) + 1 = FirstDelim
            /\ exit_res = SUCCESS

C37_Witness ==
    /\ Acquired /\ Direct /\ ck.found /\ ck.seeks = 0
    /\ ck.reads = 1 /\ fd.burst = READ_CHUNK_SIZE
    /\ pos = READ_CHUNK_SIZE /\ FirstDelim = 1 /\ buff = <<>>
    /\ pos - FirstDelim = READ_CHUNK_SIZE - 1

--------------------------------------------------------------------------
(* What the byte-at-a-time strategy consumes (SpecAcq).                    *)

\* the acquisition ended on the delimiter: the character decoded last was
\* taken off the unit again (read.rs 393-396)
StoppedOnDelimiter ==
    /\ Acquired /\ ByChar /\ exit_res = SUCCESS
    /\ oc.state = "Complete" /\ Len(buff) = oc.chars_read

\* the acquisition ended on the character limit (read.rs 397-399)
StoppedOnLimit ==
    /\ Acquired /\ ByChar /\ exit_res = SUCCESS
    /\ oc.state = "Complete" /\ Len(buff) > oc.chars_read

\* the delimiter bytes among the first n bytes of the descriptor
DelimitersIn(n) == {i \in 1..n : file[i] = TheDelim}

\* C35 (as claimed): the byte-at-a-time strategy consumes no byte it does
\* not need: when it stops on the delimiter the descriptor is one byte
\* past that delimiter, the first one after the start; when it stops on
\* the character limit N the unit has N characters and the descriptor is
\* right after the last byte of the N-th; and called once per record, as
\* --line does, it has consumed exactly the first records with their
\* delimiters, as many as there were calls.
C35_NoByteTooMany ==
    /\ StoppedOnDelimiter
         => /\ DelimAhead /\ pos = FirstDelim
            /\ opts.nchars = 0 => Cardinality(DelimitersIn(pos)) = nacq
    /\ StoppedOnLimit
         => /\ Len(buff) = opts.nchars
            /\ RawBytes(buff) = Consumed

--------------------------------------------------------------------------
(* Termination of the loop of read (SpecLive).                             *)

\* C34 (as claimed): under --line every pass whose acquisition succeeds
\* fills at least one more variable, an empty record included; a failed
\* acquisition ends the loop; so, every acquisition returning, read makes
\* at most as many passes as it has variables (one when it has none) and
\* returns.
C34_Terminates ==
    /\ [][(AboutToAssign /\ opts.one_line) => var_ptr' > var_ptr]_vars_all
    /\ [][(Acquired /\ exit_res # SUCCESS) => pc' = "done"]_vars_all
    /\ [](nacq <= Max(argc, 1))
    /\ <>Returned

====
